---- MODULE Spec2Model ----
(***************************************************************************)
(* The micro-breaks MCP server (POST /mcp): a JSON-RPC endpoint dispatching *)
(* four tools, the two outbound Overpass queries of find_break_spots, and   *)
(* the process-wide lastWidgetData slot.  Beside it, two programs of their  *)
(* own: the SSE variant of the server (GET /sse, POST /messages) and the    *)
(* polling widget; each specification runs one program and leaves the      *)
(* variables of the others as they start.                                  *)
(*                                                                         *)
(* Conventions.  A JavaScript string is a sequence of one-character        *)
(* strings, so that toLowerCase, includes and template interpolation are   *)
(* computed character by character.  A JavaScript value whose type the     *)
(* code does not control (request fields, Overpass records) is a tagged    *)
(* record: Undefined, Num(n), Str(s), Arr(a), Obj(o).  Coordinates are      *)
(* integers in units of 0.001 degree; the rating is in tenths.             *)
(***************************************************************************)
EXTENDS Integers, Sequences, FiniteSets, TLC

VARIABLES
    lastWidgetData,  \* the process-wide slot (part_000 line 19)
    requests,        \* the requests received so far, in arrival order
    queries,         \* per request: the state of its two Overpass promises
    responses,       \* per request: the responses written to res
    outbound,        \* the Overpass POSTs issued so far, in order
    incoming,        \* how many requests the clients have yet to send
    transport,       \* SSE variant: the global transport (part_001 line 283)
    connections,     \* SSE variant: the GET /sse connections opened, in order
    messages,        \* SSE variant: what became of each POST /messages
    places,          \* polling widget: the places displayed (part_002 line 70)
    route            \* polling widget: the route displayed (part_002 line 77)

\* The state of the POST /mcp server, of the SSE variant, of the widget.
mcpVars == <<lastWidgetData, requests, queries, responses, outbound, incoming>>

sseVars == <<transport, connections, messages>>

widgetVars == <<places, route>>

vars == <<mcpVars, sseVars, widgetVars>>

\* ------------------------------------------------------------------ bounds

\* Requests that arrive at POST /mcp in one run of Spec.
MaxRequests == 2

\* Longest elements array an Overpass answer carries in SpecCall.
MaxRaw == 6

\* -------------------------------------------------------- JavaScript values

Undefined == [kind |-> "undefined"]

Num(n) == [kind |-> "number", val |-> n]

Str(s) == [kind |-> "string", val |-> s]

Arr(a) == [kind |-> "array", val |-> a]

Obj(o) == [kind |-> "object", val |-> o]

\* ToBoolean: undefined, 0 and "" are falsy; arrays and objects are truthy.
Truthy(v) ==
    CASE v.kind = "undefined" -> FALSE
      [] v.kind = "number" -> v.val # 0
      [] v.kind = "string" -> v.val # <<>>
      [] OTHER -> TRUE

\* a || b
Or(a, b) == IF Truthy(a) THEN a ELSE b

\* o?.[k]
OptChain(o, k) == IF o = Undefined THEN Undefined ELSE o.val[k]

\* ------------------------------------------------------------------ strings

UpperChars ==
    <<"A", "B", "C", "D", "E", "F", "G", "H", "I", "J", "K", "L", "M", "N", "O", "P", "Q",
      "R", "S", "T", "U", "V", "W", "X", "Y", "Z", "Á", "É", "Í", "Ó", "Ú", "Ñ">>

LowerChars ==
    <<"a", "b", "c", "d", "e", "f", "g", "h", "i", "j", "k", "l", "m", "n", "o", "p", "q",
      "r", "s", "t", "u", "v", "w", "x", "y", "z", "á", "é", "í", "ó", "ú", "ñ">>

LowerChar(c) ==
    IF \E i \in DOMAIN UpperChars : UpperChars[i] = c
    THEN LowerChars[CHOOSE i \in DOMAIN UpperChars : UpperChars[i] = c]
    ELSE c

UpperChar(c) ==
    IF \E i \in DOMAIN LowerChars : LowerChars[i] = c
    THEN UpperChars[CHOOSE i \in DOMAIN LowerChars : LowerChars[i] = c]
    ELSE c

\* String.prototype.toLowerCase
toLowerCase(s) == [i \in 1..Len(s) |-> LowerChar(s[i])]

\* String.prototype.includes
includes(s, sub) ==
    \E i \in 0..(Len(s) - Len(sub)) : SubSeq(s, i + 1, i + Len(sub)) = sub

Digits == <<"0", "1", "2", "3", "4", "5", "6", "7", "8", "9">>

RECURSIVE NatToString(_)
NatToString(n) ==
    IF n < 10 THEN <<Digits[n + 1]>>
    ELSE NatToString(n \div 10) \o <<Digits[(n % 10) + 1]>>

\* Number.prototype.toString, and a number inside a template literal (integers)
NumberToString(n) == IF n < 0 THEN <<"-">> \o NatToString(-n) ELSE NatToString(n)

\* The method names compared by the endpoint, and one no branch handles.
MethodName ==
      \* "initialize"
    [ initialize |-> <<"i", "n", "i", "t", "i", "a", "l", "i", "z", "e">>,
      \* "resources/list"
      resources_list |-> <<"r", "e", "s", "o", "u", "r", "c", "e", "s", "/", "l", "i", "s",
          "t">>,
      \* "resources/read"
      resources_read |-> <<"r", "e", "s", "o", "u", "r", "c", "e", "s", "/", "r", "e", "a",
          "d">>,
      \* "tools/list"
      tools_list |-> <<"t", "o", "o", "l", "s", "/", "l", "i", "s", "t">>,
      \* "tools/call"
      tools_call |-> <<"t", "o", "o", "l", "s", "/", "c", "a", "l", "l">>,
      \* "ping"
      ping |-> <<"p", "i", "n", "g">>,
      \* "notifications/initialized"
      notifications_initialized |-> <<"n", "o", "t", "i", "f", "i", "c", "a", "t", "i", "o",
          "n", "s", "/", "i", "n", "i", "t", "i", "a", "l", "i", "z", "e", "d">> ]
\* The tool names compared by tools/call, and one no branch handles.
ToolName ==
      \* "find_break_spots"
    [ find_break_spots |-> <<"f", "i", "n", "d", "_", "b", "r", "e", "a", "k", "_", "s", "p",
          "o", "t", "s">>,
      \* "generate_walk_route"
      generate_walk_route |-> <<"g", "e", "n", "e", "r", "a", "t", "e", "_", "w", "a", "l",
          "k", "_", "r", "o", "u", "t", "e">>,
      \* "suggest_soundtrack"
      suggest_soundtrack |-> <<"s", "u", "g", "g", "e", "s", "t", "_", "s", "o", "u", "n", "d",
          "t", "r", "a", "c", "k">>,
      \* "generate_coach_message"
      generate_coach_message |-> <<"g", "e", "n", "e", "r", "a", "t", "e", "_", "c", "o", "a",
          "c", "h", "_", "m", "e", "s", "s", "a", "g", "e">>,
      \* "book_table"
      unknown |-> <<"b", "o", "o", "k", "_", "t", "a", "b", "l", "e">> ]
\* "ui://widget/map"
u_widget_map ==
    <<"u", "i", ":", "/", "/", "w", "i", "d", "g", "e", "t", "/", "m", "a", "p">>
\* "ui://widget/list"
u_other ==
    <<"u", "i", ":", "/", "/", "w", "i", "d", "g", "e", "t", "/", "l", "i", "s", "t">>
\* "undefined"
s_undefined ==
    <<"u", "n", "d", "e", "f", "i", "n", "e", "d">>
\* "Tool "
s_Tool_ ==
    <<"T", "o", "o", "l", " ">>
\* " not found"
s__not_found ==
    <<" ", "n", "o", "t", " ", "f", "o", "u", "n", "d">>
\* "Method "
s_Method_ ==
    <<"M", "e", "t", "h", "o", "d", " ">>
\* " not supported"
s__not_supported ==
    <<" ", "n", "o", "t", " ", "s", "u", "p", "p", "o", "r", "t", "e", "d">>
\* "Resource not found"
s_Resource_not_found ==
    <<"R", "e", "s", "o", "u", "r", "c", "e", " ", "n", "o", "t", " ", "f", "o", "u", "n",
        "d">>
\* "Parque sin nombre"
s_Parque_sin_nombre ==
    <<"P", "a", "r", "q", "u", "e", " ", "s", "i", "n", " ", "n", "o", "m", "b", "r", "e">>
\* "Café"
s_Cafe ==
    <<"C", "a", "f", "é">>
\* "Cerca de ti"
s_Cerca_de_ti ==
    <<"C", "e", "r", "c", "a", " ", "d", "e", " ", "t", "i">>
\* " "
s_space ==
    <<" ">>
\* "5-10 min"
s_5_10_min ==
    <<"5", "-", "1", "0", " ", "m", "i", "n">>
\* " min"
s__min ==
    <<" ", "m", "i", "n">>
\* "Ruta circular por el barrio"
s_Ruta_circular ==
    <<"R", "u", "t", "a", " ", "c", "i", "r", "c", "u", "l", "a", "r", " ", "p", "o", "r", " ",
        "e", "l", " ", "b", "a", "r", "r", "i", "o">>
\* "Encontré "
s_Encontre_ ==
    <<"E", "n", "c", "o", "n", "t", "r", "é", " ">>
\* " lugares cerca de ti."
s__lugares ==
    <<" ", "l", "u", "g", "a", "r", "e", "s", " ", "c", "e", "r", "c", "a", " ", "d", "e", " ",
        "t", "i", ".">>
\* The values of the preference enum: "más verde", "más ciudad", "mixto".
PreferenceName ==
    [ mas_verde |-> <<"m", "á", "s", " ", "v", "e", "r", "d", "e">>,
      mas_ciudad |-> <<"m", "á", "s", " ", "c", "i", "u", "d", "a", "d">>,
      mixto |-> <<"m", "i", "x", "t", "o">> ]
\* The keywords looked for in the lower-cased mood.
Keyword ==
      \* "calma"
    [ calma |-> <<"c", "a", "l", "m", "a">>,
      \* "tranquil"
      tranquil |-> <<"t", "r", "a", "n", "q", "u", "i", "l">>,
      \* "creativ"
      creativ |-> <<"c", "r", "e", "a", "t", "i", "v">>,
      \* "inspir"
      inspir |-> <<"i", "n", "s", "p", "i", "r">>,
      \* "agotado"
      agotado |-> <<"a", "g", "o", "t", "a", "d", "o">>,
      \* "bloqueada"
      bloqueada |-> <<"b", "l", "o", "q", "u", "e", "a", "d", "a">> ]
\* "ahí"
s_ahi ==
    <<"a", "h", "í">>
\* The pieces of the three coach message templates, between the interpolated
\* name and place.
Template ==
    [ tired_1 |->    \* ", respira profundo. Tómate estos minutos para ti. "
        <<",", " ", "r", "e", "s", "p", "i", "r", "a", " ", "p", "r", "o", "f", "u", "n", "d", "o",
            ".", " ", "T", "ó", "m", "a", "t", "e", " ", "e", "s", "t", "o", "s", " ", "m", "i",
            "n", "u", "t", "o", "s", " ", "p", "a", "r", "a", " ", "t", "i", ".", " ">>,
      tired_2 |->    \* " te ayudará a resetear."
        <<" ", "t", "e", " ", "a", "y", "u", "d", "a", "r", "á", " ", "a", " ", "r", "e", "s", "e",
            "t", "e", "a", "r", ".">>,
      calm_1 |->    \* "Disfruta de la paz, "
        <<"D", "i", "s", "f", "r", "u", "t", "a", " ", "d", "e", " ", "l", "a", " ", "p", "a", "z",
            ",", " ">>,
      calm_2 |->    \* ". "
        <<".", " ">>,
      calm_3 |->    \* " es perfecto para mantener esa serenidad."
        <<" ", "e", "s", " ", "p", "e", "r", "f", "e", "c", "t", "o", " ", "p", "a", "r", "a", " ",
            "m", "a", "n", "t", "e", "n", "e", "r", " ", "e", "s", "a", " ", "s", "e", "r", "e",
            "n", "i", "d", "a", "d", ".">>,
      energetic_1 |->    \* "¡Vamos, "
        <<"¡", "V", "a", "m", "o", "s", ",", " ">>,
      energetic_2 |->    \* "! Un poco de aire fresco te vendrá genial. Mira: "
        <<"!", " ", "U", "n", " ", "p", "o", "c", "o", " ", "d", "e", " ", "a", "i", "r", "e", " ",
            "f", "r", "e", "s", "c", "o", " ", "t", "e", " ", "v", "e", "n", "d", "r", "á", " ",
            "g", "e", "n", "i", "a", "l", ".", " ", "M", "i", "r", "a", ":", " ">>,
      energetic_3 |->    \* "."
        <<".">> ]

\* "Network Error"
s_Network_Error ==
    <<"N", "e", "t", "w", "o", "r", "k", " ", "E", "r", "r", "o", "r">>
\* "Cannot read properties of undefined (reading 'toString')"
s_toString_of_undefined ==
    <<"C", "a", "n", "n", "o", "t", " ", "r", "e", "a", "d", " ", "p", "r", "o", "p", "e", "r",
        "t", "i", "e", "s", " ", "o", "f", " ", "u", "n", "d", "e", "f", "i", "n", "e", "d",
        " ", "(", "r", "e", "a", "d", "i", "n", "g", " ", "'", "t", "o", "S", "t", "r", "i",
        "n", "g", "'", ")">>
\* The texts used as argument values and as tag values of raw records.
InputText ==
      \* "Necesito calma"
    [ Necesito_calma |-> <<"N", "e", "c", "e", "s", "i", "t", "o", " ", "c", "a", "l", "m",
          "a">>,
      \* "Estoy agotado"
      Estoy_agotado |-> <<"E", "s", "t", "o", "y", " ", "a", "g", "o", "t", "a", "d", "o">>,
      \* "Estoy AGOTADO"
      Estoy_AGOTADO |-> <<"E", "s", "t", "o", "y", " ", "A", "G", "O", "T", "A", "D", "O">>,
      \* "Me siento bloqueada"
      Me_siento_bloqueada |-> <<"M", "e", " ", "s", "i", "e", "n", "t", "o", " ", "b", "l",
          "o", "q", "u", "e", "a", "d", "a">>,
      \* "Calma"
      Calma |-> <<"C", "a", "l", "m", "a">>,
      \* "agotado pero en calma"
      agotado_en_calma |-> <<"a", "g", "o", "t", "a", "d", "o", " ", "p", "e", "r", "o", " ",
          "e", "n", " ", "c", "a", "l", "m", "a">>,
      \* "calma creativa"
      calma_creativa |-> <<"c", "a", "l", "m", "a", " ", "c", "r", "e", "a", "t", "i", "v",
          "a">>,
      \* "Busco inspiración"
      Busco_inspiracion |-> <<"B", "u", "s", "c", "o", " ", "i", "n", "s", "p", "i", "r", "a",
          "c", "i", "ó", "n">>,
      \* "muy tranquilo"
      muy_tranquilo |-> <<"m", "u", "y", " ", "t", "r", "a", "n", "q", "u", "i", "l", "o">>,
      \* "con energía"
      con_energia |-> <<"c", "o", "n", " ", "e", "n", "e", "r", "g", "í", "a">>,
      \* "Ana"
      Ana |-> <<"A", "n", "a">>,
      \* "El Retiro"
      El_Retiro |-> <<"E", "l", " ", "R", "e", "t", "i", "r", "o">>,
      \* "un paseo"
      un_paseo |-> <<"u", "n", " ", "p", "a", "s", "e", "o">>,
      \* "Jardín Botánico"
      Jardin |-> <<"J", "a", "r", "d", "í", "n", " ", "B", "o", "t", "á", "n", "i", "c", "o">>,
      \* "Calle Mayor"
      Calle_Mayor |-> <<"C", "a", "l", "l", "e", " ", "M", "a", "y", "o", "r">>,
      \* "12"
      number12 |-> <<"1", "2">>,
      \* "verde"
      verde |-> <<"v", "e", "r", "d", "e">>,
      \* "Creatividad TRANQUILA"
      Creatividad_TRANQUILA |->
          <<"C", "r", "e", "a", "t", "i", "v", "i", "d", "a", "d", " ", "T", "R", "A", "N",
            "Q", "U", "I", "L", "A">>,
      \* "Estoy INSPIRADA"
      Estoy_INSPIRADA |->
          <<"E", "s", "t", "o", "y", " ", "I", "N", "S", "P", "I", "R", "A", "D", "A">> ]

\* ---------------------------------------------------------- tool schemas

\* z.number(), z.number().default(d), z.string(), z.string().optional(),
\* z.enum(values).optional()
ZNumber == [type |-> "number", optional |-> FALSE, default |-> Undefined, values |-> {}]

ZNumberDefault(d) ==
    [type |-> "number", optional |-> TRUE, default |-> Num(d), values |-> {}]

ZString == [type |-> "string", optional |-> FALSE, default |-> Undefined, values |-> {}]

ZStringOptional ==
    [type |-> "string", optional |-> TRUE, default |-> Undefined, values |-> {}]

ZEnumOptional(values) ==
    [type |-> "enum", optional |-> TRUE, default |-> Undefined, values |-> values]

DefaultMaxDistanceMeters == 900

DefaultTimeWindowMinutes == 30

FindBreakSpotsSchema ==
    [lat |-> ZNumber,
     lng |-> ZNumber,
     maxDistanceMeters |-> ZNumberDefault(DefaultMaxDistanceMeters),
     timeWindowMinutes |-> ZNumberDefault(DefaultTimeWindowMinutes),
     mood |-> ZStringOptional]

GenerateWalkRouteSchema ==
    [lat |-> ZNumber,
     lng |-> ZNumber,
     timeWindowMinutes |-> ZNumber,
     preference |-> ZEnumOptional({PreferenceName.mas_verde, PreferenceName.mas_ciudad,
                                   PreferenceName.mixto})]

SuggestSoundtrackSchema == [mood |-> ZString]

GenerateCoachMessageSchema ==
    [name |-> ZStringOptional, mood |-> ZString, experience_info |-> ZString]

\* The keys an arguments object of the model may carry; an absent key reads
\* as undefined.
ArgKeys ==
    {"lat", "lng", "maxDistanceMeters", "timeWindowMinutes", "mood", "preference", "name",
     "experience_info"}

NoArgs == [k \in ArgKeys |-> Undefined]

\* FieldOk with z.enum checked as z.string: any string passes.
FieldOk_enumAsString(z, v) ==
    IF v = Undefined THEN z.optional
    ELSE CASE z.type = "number" -> v.kind = "number"
           [] z.type = "string" -> v.kind = "string"
           [] z.type = "enum" -> v.kind = "string"

\* One key of a z.object against its schema.
FieldOk(z, v) ==
    IF v = Undefined THEN z.optional
    ELSE CASE z.type = "number" -> v.kind = "number"
           [] z.type = "string" -> v.kind = "string"
           [] z.type = "enum" -> v.kind = "string" /\ v.val \in z.values

\* The issues schema.parse(args) raises: the keys that fail, or the whole
\* value when it is not an object.
Issues(schema, args) ==
    IF args.kind # "object" THEN {"arguments"}
    ELSE {k \in DOMAIN schema : ~FieldOk(schema[k], args.val[k])}

\* Parsed with the defaults filled in by ||: a given 0 is replaced too.
Parsed_defaultOnFalsy(schema, args) ==
    [k \in DOMAIN schema |->
        IF schema[k].default # Undefined /\ ~Truthy(args.val[k])
        THEN schema[k].default ELSE args.val[k]]

\* What schema.parse(args) returns when it raises nothing: the schema's keys,
\* defaults filled in.
Parsed(schema, args) ==
    [k \in DOMAIN schema |->
        IF args.val[k] = Undefined THEN schema[k].default ELSE args.val[k]]

\* ZodError.message lists the issues.
ZodMessage(issues) == [name |-> "ZodError", issues |-> issues]

\* ------------------------------------------------------------- responses

\* res.json({jsonrpc, id, result})
ResultResponse(id, result) ==
    [status |-> 200, body |-> [jsonrpc |-> "2.0", id |-> id, result |-> result]]

\* res.json({jsonrpc, id, error: {code, message}})
ErrorResponse(id, code, message) ==
    [status |-> 200,
     body |-> [jsonrpc |-> "2.0", id |-> id, error |-> [code |-> code, message |-> message]]]

\* The catch block of app.post("/mcp"): status 500, code -32603, error.message.
CatchResponse(id, message) ==
    [status |-> 500,
     body |-> [jsonrpc |-> "2.0", id |-> id,
               error |-> [code |-> -32603, message |-> message]]]

IsResult(resp) == "result" \in DOMAIN resp.body

IsError(resp) == "error" \in DOMAIN resp.body

\* JSON.stringify(value): the text is kept as the value it serialises.
JSONstringify(value) == [json |-> value]

TextContent(text) == <<[type |-> "text", text |-> text]>>

\* ------------------------------------------------------- find_break_spots

\* The Overpass QL text queryOverpass builds: its template is fixed by the
\* type, and radius, lat and lng are interpolated into every around: filter.
OverpassQuery(lat, lng, radius, type) ==
    [type |-> type, radius |-> radius, lat |-> lat, lng |-> lng]

\* response.data.elements || []
ElementsOf(data) == Or(data.elements, Arr(<<>>)).val

\* slice with its end off by one: one element too many is kept.
slice_oneTooMany(a, end) == SubSeq(a, 1, IF Len(a) < end + 1 THEN Len(a) ELSE end + 1)

\* Array.prototype.slice(0, end)
slice(a, end) == SubSeq(a, 1, IF Len(a) < end THEN Len(a) ELSE end)

\* A value inside a template literal.
TemplateString(v) ==
    CASE v.kind = "string" -> v.val
      [] v.kind = "number" -> NumberToString(v.val)
      [] v.kind = "undefined" -> s_undefined

RatingTenths == 45

\* p.id.toString() raises a TypeError when the record has no id.
FormatThrows(p) == p.id = Undefined

\* formatPlaceName with one default name for both categories.
formatPlaceName_oneDefault(p, type) == Or(OptChain(p.tags, "name"), Str(s_Parque_sin_nombre))

formatPlaceName(p, type) ==
    Or(OptChain(p.tags, "name"),
       Str(IF type = "park" THEN s_Parque_sin_nombre ELSE s_Cafe))

formatPlaceLocation(p) ==
    [lat |-> Or(OptChain(p.center, "lat"), p.lat),
     lng |-> Or(OptChain(p.center, "lon"), p.lon)]

formatPlaceAddress(p) ==
    IF Truthy(OptChain(p.tags, "addr:street"))
    THEN Str(TemplateString(p.tags.val["addr:street"]) \o s_space
             \o TemplateString(Or(p.tags.val["addr:housenumber"], Str(<<>>))))
    ELSE Str(s_Cerca_de_ti)

formatPlace(p, type) ==
    [name |-> formatPlaceName(p, type),
     type |-> type,
     rating |-> RatingTenths,
     address |-> formatPlaceAddress(p),
     location |-> formatPlaceLocation(p),
     place_id |-> NumberToString(p.id.val),
     estimated_walk_time |-> s_5_10_min]

MapFormat(a, type) == [i \in 1..Len(a) |-> formatPlace(a[i], type)]

SliceEnd == 5

formattedPlaces(parks, cafes) ==
    MapFormat(slice(parks, SliceEnd), "park") \o MapFormat(slice(cafes, SliceEnd), "quiet_cafe")

\* Whether building formattedPlaces raises: some kept record has no id.
FormattingThrows(parks, cafes) ==
    \/ \E i \in 1..Len(slice(parks, SliceEnd)) : FormatThrows(parks[i])
    \/ \E i \in 1..Len(slice(cafes, SliceEnd)) : FormatThrows(cafes[i])

\* FindBreakSpotsResult counting the park entries only.
FindBreakSpotsResult_parksCounted(listed) ==
    [content |->
        TextContent(s_Encontre_
                    \o NumberToString(Len(SelectSeq(listed, LAMBDA p : p.type = "park")))
                    \o s__lugares),
     structuredContent |-> [places |-> listed]]

FindBreakSpotsResult(listed) ==
    [content |-> TextContent(s_Encontre_ \o NumberToString(Len(listed)) \o s__lugares),
     structuredContent |-> [places |-> listed]]

\* ---------------------------------------------------- generate_walk_route

Offset == 3

\* mockRoute with the loop left open: the last point is the fourth again.
mockRoute_open(lat, lng) ==
    <<[lat |-> lat, lng |-> lng],
      [lat |-> lat + Offset, lng |-> lng],
      [lat |-> lat + Offset, lng |-> lng + Offset],
      [lat |-> lat, lng |-> lng + Offset],
      [lat |-> lat, lng |-> lng + Offset]>>

mockRoute(lat, lng) ==
    <<[lat |-> lat, lng |-> lng],
      [lat |-> lat + Offset, lng |-> lng],
      [lat |-> lat + Offset, lng |-> lng + Offset],
      [lat |-> lat, lng |-> lng + Offset],
      [lat |-> lat, lng |-> lng]>>

GenerateWalkRouteResult(lat, lng, timeWindowMinutes) ==
    [content |->
        TextContent(JSONstringify(
            [route_points |-> mockRoute(lat, lng),
             estimated_duration |-> NumberToString(timeWindowMinutes) \o s__min,
             description |-> s_Ruta_circular]))]

\* ----------------------------------------------------- suggest_soundtrack

Suggestion(title, description, type, query) ==
    [title |-> title, description |-> description, type |-> type, query |-> query]

CalmSuggestions ==
    <<Suggestion("Nature Sounds", "Sonidos de bosque y lluvia", "soundscape", "nature sounds"),
      Suggestion("Piano Chill", "Piano suave para desconectar", "playlist", "piano chill")>>

CreativeSuggestions ==
    <<Suggestion("Lofi Beats", "Ritmos suaves para fluir", "playlist", "lofi beats"),
      Suggestion("Classical Focus", "Música clásica estimulante", "playlist",
                 "classical focus")>>

DefaultSuggestions ==
    <<Suggestion("Acoustic Relax", "Guitarra acústica", "playlist", "acoustic relax"),
      Suggestion("Ambient Noise", "Ruido blanco suave", "soundscape", "ambient noise")>>

\* suggestions with the creative rule tried before the calm rule.
suggestions_creativeFirst(mood) ==
    LET m == toLowerCase(mood) IN
    IF includes(m, Keyword.creativ) \/ includes(m, Keyword.inspir) THEN CreativeSuggestions
    ELSE IF includes(m, Keyword.calma) \/ includes(m, Keyword.tranquil) THEN CalmSuggestions
    ELSE DefaultSuggestions

\* suggestions matching the mood as given, without lower-casing it.
suggestions_caseSensitive(mood) ==
    IF includes(mood, Keyword.calma) \/ includes(mood, Keyword.tranquil) THEN CalmSuggestions
    ELSE IF includes(mood, Keyword.creativ) \/ includes(mood, Keyword.inspir)
          THEN CreativeSuggestions
    ELSE DefaultSuggestions

suggestions(mood) ==
    LET m == toLowerCase(mood) IN
    IF includes(m, Keyword.calma) \/ includes(m, Keyword.tranquil) THEN CalmSuggestions
    ELSE IF includes(m, Keyword.creativ) \/ includes(m, Keyword.inspir) THEN CreativeSuggestions
    ELSE DefaultSuggestions

SuggestSoundtrackResult(mood) ==
    [content |-> TextContent(JSONstringify(suggestions(mood)))]

\* ------------------------------------------------- generate_coach_message

\* userName without the fallback: an absent name reads as "undefined".
userName_noFallback(name) == TemplateString(name)

userName(name) == Or(name, Str(s_ahi)).val

\* message matching the lower-cased mood, as suggestions does.
message_lowerCased(name, mood, experience_info) ==
    LET m == toLowerCase(mood) IN
    IF includes(m, Keyword.agotado) \/ includes(m, Keyword.bloqueada)
    THEN userName(name) \o Template.tired_1 \o experience_info \o Template.tired_2
    ELSE IF includes(m, Keyword.calma)
    THEN Template.calm_1 \o userName(name) \o Template.calm_2 \o experience_info \o Template.calm_3
    ELSE Template.energetic_1 \o userName(name) \o Template.energetic_2 \o experience_info
         \o Template.energetic_3

\* message with the calm rule tried before the tired rule.
message_calmFirst(name, mood, experience_info) ==
    IF includes(mood, Keyword.calma)
    THEN Template.calm_1 \o userName(name) \o Template.calm_2 \o experience_info \o Template.calm_3
    ELSE IF includes(mood, Keyword.agotado) \/ includes(mood, Keyword.bloqueada)
    THEN userName(name) \o Template.tired_1 \o experience_info \o Template.tired_2
    ELSE Template.energetic_1 \o userName(name) \o Template.energetic_2 \o experience_info
         \o Template.energetic_3

message(name, mood, experience_info) ==
    IF includes(mood, Keyword.agotado) \/ includes(mood, Keyword.bloqueada)
    THEN userName(name) \o Template.tired_1 \o experience_info \o Template.tired_2
    ELSE IF includes(mood, Keyword.calma)
    THEN Template.calm_1 \o userName(name) \o Template.calm_2 \o experience_info \o Template.calm_3
    ELSE Template.energetic_1 \o userName(name) \o Template.energetic_2 \o experience_info
         \o Template.energetic_3

GenerateCoachMessageResult(name, mood, experience_info) ==
    [content |-> TextContent(message(name, mood, experience_info))]

\* ------------------------------------------------------------ the endpoint

EmptyObject == <<>>

Idle == [state |-> "idle"]

Pending == [state |-> "pending"]

\* A settled queryOverpass promise: the array it resolved to, and whether it
\* got there through its catch block.
Settled(elements, failed) ==
    [state |-> "settled", elements |-> elements, failed |-> failed]

NoParams == [name |-> Undefined, arguments |-> Undefined, uri |-> Undefined]

\* const params = request.params || {}
ParamsOf(r) == Or(r.params, Obj(NoParams)).val

\* const args = params.arguments || {}
ArgsOf(r) == Or(ParamsOf(r).arguments, Obj(NoArgs))

IsToolsCall(r, toolName) ==
    r.method = Str(MethodName.tools_call) /\ ParamsOf(r).name = Str(toolName)

ToolNames ==
    {ToolName.find_break_spots, ToolName.generate_walk_route, ToolName.suggest_soundtrack,
     ToolName.generate_coach_message}

Methods ==
    {MethodName.initialize, MethodName.resources_list, MethodName.resources_read,
     MethodName.tools_list, MethodName.tools_call}

\* The handle of the request now arriving: its place in arrival order.
NextHandle == Len(requests) + 1

Arrive(r) ==
    /\ incoming > 0
    /\ incoming' = incoming - 1
    /\ requests' = Append(requests, r)
    /\ UNCHANGED <<sseVars, widgetVars>>

Respond(h, resp) == responses' = [responses EXCEPT ![h] = Append(@, resp)]

InitializeResult ==
    [protocolVersion |-> "2024-11-05",
     capabilities |-> [tools |-> EmptyObject, resources |-> EmptyObject],
     serverInfo |-> [name |-> "Micro Breaks MCP Server", version |-> "1.0.0"]]

ResourcesListResult ==
    [resources |->
        <<[uri |-> u_widget_map, name |-> "Micro Breaks Map Widget",
           description |-> "Mapa interactivo con los lugares sugeridos",
           mimeType |-> "text/html+skybridge"]>>]

\* tools/list: the four tools, the first two linked to the widget.
ToolsListResult ==
    [tools |->
        <<[name |-> ToolName.find_break_spots, outputTemplate |-> u_widget_map],
          [name |-> ToolName.generate_walk_route, outputTemplate |-> u_widget_map],
          [name |-> ToolName.suggest_soundtrack, outputTemplate |-> <<>>],
          [name |-> ToolName.generate_coach_message, outputTemplate |-> <<>>]>>]

\* The widget page with window.__INITIAL_DATA__ injected, or the fallback
\* page when index.html cannot be read.
WidgetHtml(fileOk, slot) ==
    IF fileOk THEN [page |-> "index.html", initialData |-> JSONstringify(slot)]
    ELSE [page |-> "<h1>Error loading widget</h1>"]

ResourcesReadResult(fileOk, slot) ==
    [contents |->
        <<[uri |-> u_widget_map, mimeType |-> "text/html+skybridge",
           text |-> WidgetHtml(fileOk, slot)]>>]

Initialize(r) ==
    /\ r.method = Str(MethodName.initialize)
    /\ Arrive(r)
    /\ Respond(NextHandle, ResultResponse(r.id, InitializeResult))
    /\ UNCHANGED <<lastWidgetData, queries, outbound>>

ResourcesList(r) ==
    /\ r.method = Str(MethodName.resources_list)
    /\ Arrive(r)
    /\ Respond(NextHandle, ResultResponse(r.id, ResourcesListResult))
    /\ UNCHANGED <<lastWidgetData, queries, outbound>>

\* ResourcesRead injecting the value the slot had at start-up.
ResourcesRead_injectingInitial(r) ==
    /\ r.method = Str(MethodName.resources_read)
    /\ Arrive(r)
    /\ IF ParamsOf(r).uri = Str(u_widget_map)
       THEN \E fileOk \in BOOLEAN :
               Respond(NextHandle,
                       ResultResponse(r.id, ResourcesReadResult(fileOk, EmptyObject)))
       ELSE Respond(NextHandle, ErrorResponse(r.id, -32602, s_Resource_not_found))
    /\ UNCHANGED <<lastWidgetData, queries, outbound>>

ResourcesRead(r) ==
    /\ r.method = Str(MethodName.resources_read)
    /\ Arrive(r)
    /\ IF ParamsOf(r).uri = Str(u_widget_map)
       THEN \E fileOk \in BOOLEAN :
               Respond(NextHandle,
                       ResultResponse(r.id, ResourcesReadResult(fileOk, lastWidgetData)))
       ELSE Respond(NextHandle, ErrorResponse(r.id, -32602, s_Resource_not_found))
    /\ UNCHANGED <<lastWidgetData, queries, outbound>>

ToolsList(r) ==
    /\ r.method = Str(MethodName.tools_list)
    /\ Arrive(r)
    /\ Respond(NextHandle, ResultResponse(r.id, ToolsListResult))
    /\ UNCHANGED <<lastWidgetData, queries, outbound>>

\* CallFindBreakSpots narrowing the search when a mood is given: the radius
\* of both queries is halved.
CallFindBreakSpots_moodRadius(r) ==
    /\ IsToolsCall(r, ToolName.find_break_spots)
    /\ Arrive(r)
    /\ LET issues == Issues(FindBreakSpotsSchema, ArgsOf(r))
           a == Parsed(FindBreakSpotsSchema, ArgsOf(r))
           h == NextHandle
           radius == IF a.mood = Undefined THEN a.maxDistanceMeters.val
                     ELSE a.maxDistanceMeters.val \div 2
       IN IF issues # {}
          THEN /\ Respond(h, CatchResponse(r.id, ZodMessage(issues)))
               /\ UNCHANGED <<queries, outbound>>
          ELSE /\ outbound' =
                     outbound \o
                     <<[handle |-> h,
                        query |-> OverpassQuery(a.lat.val, a.lng.val, radius, "park")],
                       [handle |-> h,
                        query |-> OverpassQuery(a.lat.val, a.lng.val, radius, "cafe")]>>
               /\ queries' = [queries EXCEPT ![h] = [park |-> Pending, cafe |-> Pending]]
               /\ UNCHANGED responses
    /\ UNCHANGED lastWidgetData

\* find_break_spots up to its await: parse the arguments, issue both queries.
CallFindBreakSpots(r) ==
    /\ IsToolsCall(r, ToolName.find_break_spots)
    /\ Arrive(r)
    /\ LET issues == Issues(FindBreakSpotsSchema, ArgsOf(r))
           a == Parsed(FindBreakSpotsSchema, ArgsOf(r))
           h == NextHandle
       IN IF issues # {}
          THEN /\ Respond(h, CatchResponse(r.id, ZodMessage(issues)))
               /\ UNCHANGED <<queries, outbound>>
          ELSE /\ outbound' =
                     outbound \o
                     <<[handle |-> h,
                        query |-> OverpassQuery(a.lat.val, a.lng.val,
                                                a.maxDistanceMeters.val, "park")],
                       [handle |-> h,
                        query |-> OverpassQuery(a.lat.val, a.lng.val,
                                                a.maxDistanceMeters.val, "cafe")]>>
               /\ queries' = [queries EXCEPT ![h] = [park |-> Pending, cafe |-> Pending]]
               /\ UNCHANGED responses
    /\ UNCHANGED lastWidgetData

\* Resume keeping the places in the shared slot and answering from it: the
\* places of earlier calls stay in the list.
Resume_sharedPlaces(h, parks, cafes) ==
    IF FormattingThrows(parks, cafes)
    THEN /\ Respond(h, CatchResponse(requests[h].id, s_toString_of_undefined))
         /\ UNCHANGED lastWidgetData
    ELSE LET earlier == IF "places" \in DOMAIN lastWidgetData
                        THEN lastWidgetData.places ELSE <<>>
             all == earlier \o formattedPlaces(parks, cafes)
         IN /\ lastWidgetData' = [places |-> all]
            /\ Respond(h, ResultResponse(requests[h].id, FindBreakSpotsResult(all)))

\* Resume with requestId kept in a variable shared by all requests: it holds
\* the id of the request that arrived last.
Resume_sharedRequestId(h, parks, cafes) ==
    LET requestId == requests[Len(requests)].id IN
    IF FormattingThrows(parks, cafes)
    THEN /\ Respond(h, CatchResponse(requestId, s_toString_of_undefined))
         /\ UNCHANGED lastWidgetData
    ELSE /\ lastWidgetData' = [places |-> formattedPlaces(parks, cafes)]
         /\ Respond(h, ResultResponse(requestId,
                                      FindBreakSpotsResult(formattedPlaces(parks, cafes))))

\* Resume with the failure path clearing the slot before it answers.
Resume_catchClearsSlot(h, parks, cafes) ==
    IF FormattingThrows(parks, cafes)
    THEN /\ Respond(h, CatchResponse(requests[h].id, s_toString_of_undefined))
         /\ lastWidgetData' = EmptyObject
    ELSE /\ lastWidgetData' = [places |-> formattedPlaces(parks, cafes)]
         /\ Respond(h, ResultResponse(requests[h].id,
                                      FindBreakSpotsResult(formattedPlaces(parks, cafes))))

\* find_break_spots after its await: format, store, respond; a record without
\* an id lands in the catch block.
Resume(h, parks, cafes) ==
    IF FormattingThrows(parks, cafes)
    THEN /\ Respond(h, CatchResponse(requests[h].id, s_toString_of_undefined))
         /\ UNCHANGED lastWidgetData
    ELSE /\ lastWidgetData' = [places |-> formattedPlaces(parks, cafes)]
         /\ Respond(h, ResultResponse(requests[h].id,
                                      FindBreakSpotsResult(formattedPlaces(parks, cafes))))

\* Settle with the two promises raced instead of joined: the handler resumes
\* when the first of them settles, the other one counting as empty.
Settle_race(h, type, q) ==
    LET qs == [queries[h] EXCEPT ![type] = q]
        other == IF type = "park" THEN "cafe" ELSE "park"
    IN
    /\ queries[h][type] = Pending
    /\ queries' = [queries EXCEPT ![h] = qs]
    /\ IF queries[h][other] = Pending
       THEN Resume(h, IF type = "park" THEN q.elements ELSE <<>>,
                      IF type = "cafe" THEN q.elements ELSE <<>>)
       ELSE UNCHANGED <<lastWidgetData, responses>>
    /\ UNCHANGED <<requests, outbound, incoming, sseVars, widgetVars>>

\* One queryOverpass promise settles; the handler resumes, in the same turn
\* of the event loop, once both have.
Settle(h, type, q) ==
    LET qs == [queries[h] EXCEPT ![type] = q] IN
    /\ queries[h][type] = Pending
    /\ queries' = [queries EXCEPT ![h] = qs]
    /\ IF qs.park.state = "settled" /\ qs.cafe.state = "settled"
       THEN Resume(h, qs.park.elements, qs.cafe.elements)
       ELSE UNCHANGED <<lastWidgetData, responses>>
    /\ UNCHANGED <<requests, outbound, incoming, sseVars, widgetVars>>

\* axios.post resolves with response.data = data.
QueryReturns(h, type, data) == Settle(h, type, Settled(ElementsOf(data), FALSE))

\* QueryFails with the rejection propagated: Promise.all rejects and the
\* handler's catch block answers with the failure.
QueryFails_propagated(h, type) ==
    /\ queries[h][type] = Pending
    /\ queries' = [queries EXCEPT ![h] = [park |-> Settled(<<>>, TRUE),
                                          cafe |-> Settled(<<>>, TRUE)]]
    /\ Respond(h, CatchResponse(requests[h].id, s_Network_Error))
    /\ UNCHANGED <<lastWidgetData, requests, outbound, incoming, sseVars, widgetVars>>

\* QueryFails with one retry: the first failure of a query issues it again
\* and leaves the promise pending.
QueryFails_retried(h, type) ==
    LET issued == SelectSeq(outbound, LAMBDA o : o.handle = h /\ o.query.type = type) IN
    IF queries[h][type] = Pending /\ Len(issued) = 1
    THEN /\ outbound' = Append(outbound, issued[1])
         /\ UNCHANGED <<lastWidgetData, requests, queries, responses, incoming,
                        sseVars, widgetVars>>
    ELSE Settle(h, type, Settled(<<>>, TRUE))

\* QueryFails with the rejection lost: the promise is marked failed but the
\* handler awaiting it is never resumed.
QueryFails_lost(h, type) ==
    /\ queries[h][type] = Pending
    /\ queries' = [queries EXCEPT ![h][type] = Settled(<<>>, TRUE)]
    /\ UNCHANGED <<lastWidgetData, requests, responses, outbound, incoming, sseVars, widgetVars>>

\* axios.post rejects (network error, non-2xx status, timeout): the catch
\* block logs and returns [].
QueryFails(h, type) == Settle(h, type, Settled(<<>>, TRUE))

\* CallGenerateWalkRoute adding the route to what the slot holds instead of
\* replacing it.
CallGenerateWalkRoute_merging(r) ==
    /\ IsToolsCall(r, ToolName.generate_walk_route)
    /\ Arrive(r)
    /\ LET issues == Issues(GenerateWalkRouteSchema, ArgsOf(r))
           a == Parsed(GenerateWalkRouteSchema, ArgsOf(r))
       IN IF issues # {}
          THEN /\ Respond(NextHandle, CatchResponse(r.id, ZodMessage(issues)))
               /\ UNCHANGED lastWidgetData
          ELSE /\ lastWidgetData' =
                     [k \in DOMAIN lastWidgetData \cup {"route"} |->
                         IF k = "route" THEN mockRoute(a.lat.val, a.lng.val)
                         ELSE lastWidgetData[k]]
               /\ Respond(NextHandle,
                          ResultResponse(r.id,
                              GenerateWalkRouteResult(a.lat.val, a.lng.val,
                                                      a.timeWindowMinutes.val)))
    /\ UNCHANGED <<queries, outbound>>

CallGenerateWalkRoute(r) ==
    /\ IsToolsCall(r, ToolName.generate_walk_route)
    /\ Arrive(r)
    /\ LET issues == Issues(GenerateWalkRouteSchema, ArgsOf(r))
           a == Parsed(GenerateWalkRouteSchema, ArgsOf(r))
       IN IF issues # {}
          THEN /\ Respond(NextHandle, CatchResponse(r.id, ZodMessage(issues)))
               /\ UNCHANGED lastWidgetData
          ELSE /\ lastWidgetData' = [route |-> mockRoute(a.lat.val, a.lng.val)]
               /\ Respond(NextHandle,
                          ResultResponse(r.id,
                              GenerateWalkRouteResult(a.lat.val, a.lng.val,
                                                      a.timeWindowMinutes.val)))
    /\ UNCHANGED <<queries, outbound>>

\* CallSuggestSoundtrack storing its suggestions in the slot as well.
CallSuggestSoundtrack_storing(r) ==
    /\ IsToolsCall(r, ToolName.suggest_soundtrack)
    /\ Arrive(r)
    /\ LET issues == Issues(SuggestSoundtrackSchema, ArgsOf(r))
           a == Parsed(SuggestSoundtrackSchema, ArgsOf(r))
       IN IF issues # {}
          THEN /\ Respond(NextHandle, CatchResponse(r.id, ZodMessage(issues)))
               /\ UNCHANGED lastWidgetData
          ELSE /\ Respond(NextHandle,
                          ResultResponse(r.id, SuggestSoundtrackResult(a.mood.val)))
               /\ lastWidgetData' = [suggestions |-> suggestions(a.mood.val)]
    /\ UNCHANGED <<queries, outbound>>

CallSuggestSoundtrack(r) ==
    /\ IsToolsCall(r, ToolName.suggest_soundtrack)
    /\ Arrive(r)
    /\ LET issues == Issues(SuggestSoundtrackSchema, ArgsOf(r))
           a == Parsed(SuggestSoundtrackSchema, ArgsOf(r))
       IN IF issues # {}
          THEN Respond(NextHandle, CatchResponse(r.id, ZodMessage(issues)))
          ELSE Respond(NextHandle, ResultResponse(r.id, SuggestSoundtrackResult(a.mood.val)))
    /\ UNCHANGED <<lastWidgetData, queries, outbound>>

\* CallGenerateCoachMessage storing its message in the slot as well.
CallGenerateCoachMessage_storing(r) ==
    /\ IsToolsCall(r, ToolName.generate_coach_message)
    /\ Arrive(r)
    /\ LET issues == Issues(GenerateCoachMessageSchema, ArgsOf(r))
           a == Parsed(GenerateCoachMessageSchema, ArgsOf(r))
       IN IF issues # {}
          THEN /\ Respond(NextHandle, CatchResponse(r.id, ZodMessage(issues)))
               /\ UNCHANGED lastWidgetData
          ELSE /\ Respond(NextHandle,
                          ResultResponse(r.id,
                              GenerateCoachMessageResult(a.name, a.mood.val,
                                                         a.experience_info.val)))
               /\ lastWidgetData' =
                     [message |-> message(a.name, a.mood.val, a.experience_info.val)]
    /\ UNCHANGED <<queries, outbound>>

CallGenerateCoachMessage(r) ==
    /\ IsToolsCall(r, ToolName.generate_coach_message)
    /\ Arrive(r)
    /\ LET issues == Issues(GenerateCoachMessageSchema, ArgsOf(r))
           a == Parsed(GenerateCoachMessageSchema, ArgsOf(r))
       IN IF issues # {}
          THEN Respond(NextHandle, CatchResponse(r.id, ZodMessage(issues)))
          ELSE Respond(NextHandle,
                       ResultResponse(r.id,
                           GenerateCoachMessageResult(a.name, a.mood.val,
                                                      a.experience_info.val)))
    /\ UNCHANGED <<lastWidgetData, queries, outbound>>

\* CallUnknownTool without the final else: result stays undefined and is sent.
CallUnknownTool_noThrow(r) ==
    /\ r.method = Str(MethodName.tools_call)
    /\ \A t \in ToolNames : ParamsOf(r).name # Str(t)
    /\ Arrive(r)
    /\ Respond(NextHandle, ResultResponse(r.id, Undefined))
    /\ UNCHANGED <<lastWidgetData, queries, outbound>>

\* throw new Error(`Tool ${toolName} not found`), caught by the catch block.
CallUnknownTool(r) ==
    /\ r.method = Str(MethodName.tools_call)
    /\ \A t \in ToolNames : ParamsOf(r).name # Str(t)
    /\ Arrive(r)
    /\ Respond(NextHandle,
               CatchResponse(r.id, s_Tool_ \o TemplateString(ParamsOf(r).name)
                                   \o s__not_found))
    /\ UNCHANGED <<lastWidgetData, queries, outbound>>

\* UnsupportedMethod throwing instead of answering: the catch block replies.
UnsupportedMethod_thrown(r) ==
    /\ \A m \in Methods : r.method # Str(m)
    /\ Arrive(r)
    /\ Respond(NextHandle,
               CatchResponse(r.id, s_Method_ \o TemplateString(r.method)
                                   \o s__not_supported))
    /\ UNCHANGED <<lastWidgetData, queries, outbound>>

\* The final else: any other method.
UnsupportedMethod(r) ==
    /\ \A m \in Methods : r.method # Str(m)
    /\ Arrive(r)
    /\ Respond(NextHandle,
               ErrorResponse(r.id, -32601, s_Method_ \o TemplateString(r.method)
                                           \o s__not_supported))
    /\ UNCHANGED <<lastWidgetData, queries, outbound>>

\* The requests that may arrive now: none once the clients have sent theirs.
Arrivals(candidates) == IF incoming > 0 THEN candidates ELSE {}

\* app.post("/mcp") from the arrival of a request to its first await or its
\* response, for a request drawn from candidates.
Receive(candidates) ==
    \/ \E r \in Arrivals(candidates) : Initialize(r)
    \/ \E r \in Arrivals(candidates) : ResourcesList(r)
    \/ \E r \in Arrivals(candidates) : ResourcesRead(r)
    \/ \E r \in Arrivals(candidates) : ToolsList(r)
    \/ \E r \in Arrivals(candidates) : CallFindBreakSpots(r)
    \/ \E r \in Arrivals(candidates) : CallGenerateWalkRoute(r)
    \/ \E r \in Arrivals(candidates) : CallSuggestSoundtrack(r)
    \/ \E r \in Arrivals(candidates) : CallGenerateCoachMessage(r)
    \/ \E r \in Arrivals(candidates) : CallUnknownTool(r)
    \/ \E r \in Arrivals(candidates) : UnsupportedMethod(r)


\* ------------------------------------------- the SSE variant of the server
\*
\* part_001 serves the same tools over GET /sse and POST /messages.  A
\* connection is the response object of one GET /sse; connections[c] records
\* whether that response has ended (res.writableEnded), whether the
\* request's close event has fired, the state of the keepAlive interval of
\* that handler's closure ("unset" when the handler never reached
\* setInterval, and then registered no close listener either) and the
\* number of comments written to it.

\* Most GET /sse connections opened in one behaviour.
MaxConnections == 2

\* Most keep-alive comments written to one connection.
MaxComments == 1

\* Most POST /messages requests made in one behaviour.
MaxMessages == 1

\* new SSEServerTransport("/messages", res), res being connection c.
SSEServerTransport(c) == [kind |-> "object", res |-> c]

\* GET /sse with the first connection winning: the global is assigned only
\* while it is still undefined.
GetSse_firstWins(connected) ==
    /\ Len(connections) < MaxConnections
    /\ transport' = IF transport = Undefined
                    THEN SSEServerTransport(Len(connections) + 1)
                    ELSE transport
    /\ connections' = Append(connections,
                             [writableEnded |-> FALSE, closed |-> FALSE,
                              keepAlive |-> IF connected THEN "set" ELSE "unset",
                              comments |-> 0])
    /\ UNCHANGED <<messages, mcpVars, widgetVars>>

\* GET /sse.  The global transport is assigned before the await.
\* server.connect only registers callbacks and starts the transport, so its
\* promise settles within the turn: when it resolves (connected) the
\* interval is set and the close listener registered before any other
\* event is handled; when it rejects the handler ends there, with the
\* global already assigned.
GetSse(connected) ==
    /\ Len(connections) < MaxConnections
    /\ transport' = SSEServerTransport(Len(connections) + 1)
    /\ connections' = Append(connections,
                             [writableEnded |-> FALSE, closed |-> FALSE,
                              keepAlive |-> IF connected THEN "set" ELSE "unset",
                              comments |-> 0])
    /\ UNCHANGED <<messages, mcpVars, widgetVars>>

\* One tick of the keepAlive interval of connection c.
KeepAlive(c) ==
    /\ connections[c].keepAlive = "set"
    /\ IF connections[c].writableEnded
       THEN connections' = [connections EXCEPT ![c].keepAlive = "cleared"]
       ELSE /\ connections[c].comments < MaxComments
            /\ connections' = [connections EXCEPT ![c].comments = @ + 1]
    /\ UNCHANGED <<transport, messages, mcpVars, widgetVars>>

\* The close event with the interval held in a global like the transport:
\* the listener clears the interval of the latest connection.
Close_latest(c) ==
    /\ ~connections[c].closed
    /\ connections' =
          [d \in 1..Len(connections) |->
              [connections[d] EXCEPT
                  !.closed = (d = c) \/ @,
                  !.keepAlive = IF d = Len(connections) /\ @ = "set"
                                   /\ connections[c].keepAlive # "unset"
                                THEN "cleared" ELSE @]]
    /\ UNCHANGED <<transport, messages, mcpVars, widgetVars>>

\* The close event of the request of connection c: its listener, when one
\* was registered, clears the interval of its own closure.
Close(c) ==
    /\ ~connections[c].closed
    /\ connections' =
          [connections EXCEPT
              ![c].closed = TRUE,
              ![c].keepAlive = IF @ = "set" THEN "cleared" ELSE @]
    /\ UNCHANGED <<transport, messages, mcpVars, widgetVars>>

\* The response of connection c is ended (res.end() by the transport).
End(c) ==
    /\ ~connections[c].writableEnded
    /\ connections' = [connections EXCEPT ![c].writableEnded = TRUE]
    /\ UNCHANGED <<transport, messages, mcpVars, widgetVars>>

\* POST /messages without the guard: handlePostMessage is called on whatever
\* the global holds, and the TypeError on undefined is caught.
PostMessages_unguarded(thrown) ==
    /\ Len(messages) < MaxMessages
    /\ messages' =
          Append(messages,
                 IF transport = Undefined
                 THEN [status |-> 500, transport |-> Undefined, closed |-> FALSE]
                 ELSE [status |-> IF thrown THEN 500 ELSE 202,
                       transport |-> transport,
                       closed |-> connections[transport.res].closed])
    /\ UNCHANGED <<transport, connections, mcpVars, widgetVars>>

\* POST /messages.  handlePostMessage answers the request itself or throws
\* (thrown).  messages records, for each request, the status answered (202
\* standing for the transport's own answer), the transport whose
\* handlePostMessage received it (Undefined when none did) and whether the
\* close event of that transport's connection had fired by then.
PostMessages(thrown) ==
    /\ Len(messages) < MaxMessages
    /\ messages' =
          Append(messages,
                 IF ~(transport # Undefined)
                 THEN [status |-> 400, transport |-> Undefined, closed |-> FALSE]
                 ELSE [status |-> IF thrown THEN 500 ELSE 202,
                       transport |-> transport,
                       closed |-> connections[transport.res].closed])
    /\ UNCHANGED <<transport, connections, mcpVars, widgetVars>>

\* ------------------------------------------------------ the polling widget
\*
\* part_002 is the React widget: its places and route start from
\* window.__INITIAL_DATA__ and are then updated from the answers of a poll
\* repeated every 3 seconds.  Coordinates are in units of 0.001 degree and
\* ratings in tenths, as for the server; a number that may be a fraction
\* (an id) is a record of its whole part and its tenths.  places is the
\* array displayed, route the array displayed (as Arr) or Null.

\* Longest places list an answer to a poll carries.
MaxPolled == 2

Null == [kind |-> "null"]

MOCK_PLACES ==
    << [id |-> [whole |-> 1, tenths |-> 0], name |-> "Parque del Retiro",
        type |-> "park", lat |-> 40415, lng |-> -3684,
        address |-> "Plaza de la Independencia, 7", rating |-> 48,
        estimated_walk_time |-> "10 min"],
       [id |-> [whole |-> 2, tenths |-> 0], name |-> "Cafe Murillo",
        type |-> "cafe", lat |-> 40414, lng |-> -3689,
        address |-> "Calle Ruiz de Alarcon, 27", rating |-> 45,
        estimated_walk_time |-> "5 min"],
       [id |-> [whole |-> 3, tenths |-> 0], name |-> "Real Jardin Botanico",
        type |-> "park", lat |-> 40411, lng |-> -3689,
        address |-> "Plaza de Murillo, 2", rating |-> 47,
        estimated_walk_time |-> "12 min"] >>

\* The useState initialisers: a legacy array is taken as the places, an
\* object gives its places (when truthy) and its route (when truthy).
InitialState(data) ==
    [places |-> IF data.kind = "array" THEN data.val
                ELSE IF Truthy(data) /\ Truthy(data.val.places)
                     THEN data.val.places.val
                     ELSE MOCK_PLACES,
     route |-> IF data.kind # "array" /\ Truthy(data) /\ Truthy(data.val.route)
               THEN data.val.route
               ELSE Null]

\* parseInt of a string without leading blanks: an optional sign and the
\* value of the longest run of digits after it; NaN when that run is empty.
parseInt(s) ==
    LET isDigit(ch) == \E d \in 0..9 : Digits[d + 1] = ch
        digit(ch) == CHOOSE d \in 0..9 : Digits[d + 1] = ch
        signed == s # <<>> /\ s[1] \in {"-", "+"}
        first == IF signed THEN 2 ELSE 1
        RECURSIVE value(_, _)
        value(i, acc) ==
            IF i > Len(s) \/ ~isDigit(s[i]) THEN acc
            ELSE value(i + 1, 10 * acc + digit(s[i]))
    IN  IF first > Len(s) \/ ~isDigit(s[first])
        THEN [nan |-> TRUE, val |-> 0]
        ELSE [nan |-> FALSE,
              val |-> IF signed /\ s[1] = "-" THEN -value(first, 0)
                      ELSE value(first, 0)]

\* What Math.random() may return, in tenths.
Fractions == {3, 7}

\* data.places.map(...): the places of an answer in the widget's format.
\* random[i] is what Math.random() returns for the i-th place.  An entry
\* without a location makes the callback throw.
transformedPlaces(list, random) ==
    [i \in 1..Len(list) |->
        [id |-> IF ~parseInt(list[i].place_id).nan /\ parseInt(list[i].place_id).val # 0
                THEN [whole |-> parseInt(list[i].place_id).val, tenths |-> 0]
                ELSE [whole |-> 0, tenths |-> random[i]],
         name |-> list[i].name,
         type |-> IF list[i].type = "park" THEN "park" ELSE "cafe",
         lat |-> list[i].location.val.lat,
         lng |-> list[i].location.val.lng,
         address |-> list[i].address,
         rating |-> list[i].rating,
         estimated_walk_time |-> list[i].estimated_walk_time]]

\* fetchData with the places always taken from the answer: an answer
\* without places, or with an empty list, clears the displayed places.
fetchData_clearing(answer, random) ==
    IF answer.kind # "object"
    THEN UNCHANGED vars
    ELSE LET data == answer.val IN
         IF /\ Truthy(data.places)
            /\ \E i \in 1..Len(data.places.val) : data.places.val[i].location = Undefined
         THEN UNCHANGED vars
         ELSE /\ places' = IF Truthy(data.places)
                           THEN transformedPlaces(data.places.val, random)
                           ELSE <<>>
              /\ route' = IF Truthy(data.route) /\ Len(data.route.val) > 0
                          THEN data.route
                          ELSE route
              /\ UNCHANGED <<mcpVars, sseVars>>

\* fetchData from the arrival of the answer on: answer is what
\* response.json() gives (Undefined when fetch or json() rejects, Null for
\* a JSON null, on which data.places throws).  A place without a location
\* makes the map callback throw.  Whatever is thrown is caught and nothing
\* is set.
fetchData(answer, random) ==
    IF answer.kind # "object"
    THEN UNCHANGED vars
    ELSE LET data == answer.val IN
         IF /\ Truthy(data.places) /\ Len(data.places.val) > 0
            /\ \E i \in 1..Len(data.places.val) : data.places.val[i].location = Undefined
         THEN UNCHANGED vars
         ELSE /\ places' = IF Truthy(data.places) /\ Len(data.places.val) > 0
                           THEN transformedPlaces(data.places.val, random)
                           ELSE places
              /\ route' = IF Truthy(data.route) /\ Len(data.route.val) > 0
                          THEN data.route
                          ELSE route
              /\ UNCHANGED <<mcpVars, sseVars>>
\* ------------------------------------------------------------------ inputs

Request(id, method, params) == [id |-> id, method |-> Str(method), params |-> params]

\* An arguments object carrying the given keys.
Args(given) == Obj(given @@ NoArgs)

ToolsCall(id, toolName, arguments) ==
    Request(id, MethodName.tools_call,
            Obj([name |-> toolName, arguments |-> arguments, uri |-> Undefined]))

Read(id, uri) ==
    Request(id, MethodName.resources_read,
            Obj([name |-> Undefined, arguments |-> Undefined, uri |-> Str(uri)]))

\* Requests of every method and tool, well-formed and malformed, and a
\* notification (a message without an id).
SmallRequests ==
    {Request(Num(1), MethodName.initialize, Undefined),
     Request(Num(1), MethodName.resources_list, Undefined),
     Request(Num(1), MethodName.tools_list, Obj(NoParams)),
     Request(Num(1), MethodName.ping, Undefined),
     Read(Num(1), u_widget_map),
     Read(Num(2), u_other),
     ToolsCall(Num(1), Str(ToolName.find_break_spots),
               Args([lat |-> Num(40415), lng |-> Num(-3684)])),
     ToolsCall(Num(1), Str(ToolName.find_break_spots), Args([lat |-> Num(40415)])),
     ToolsCall(Num(2), Str(ToolName.generate_walk_route),
               Args([lat |-> Num(40415), lng |-> Num(-3684),
                     timeWindowMinutes |-> Num(20)])),
     ToolsCall(Num(1), Str(ToolName.generate_walk_route),
               Args([lat |-> Num(40415), lng |-> Num(-3684),
                     timeWindowMinutes |-> Num(20), preference |-> Str(InputText.verde)])),
     ToolsCall(Num(1), Str(ToolName.suggest_soundtrack),
               Args([mood |-> Str(InputText.Necesito_calma)])),
     ToolsCall(Num(2), Str(ToolName.suggest_soundtrack), Undefined),
     ToolsCall(Num(1), Str(ToolName.generate_coach_message),
               Args([name |-> Str(InputText.Ana), mood |-> Str(InputText.Estoy_agotado),
                     experience_info |-> Str(InputText.El_Retiro)])),
     ToolsCall(Num(2), Str(ToolName.generate_coach_message),
               Args([mood |-> Str(InputText.Estoy_agotado)])),
     ToolsCall(Num(1), Str(ToolName.unknown), Args([lat |-> Num(40415), lng |-> Num(-3684)])),
     Request(Num(2), MethodName.tools_call, Undefined),
     Request(Undefined, MethodName.notifications_initialized, Undefined)}

\* s with the letters at the positions in upper written in upper case.
CaseMix(s, upper) == [i \in 1..Len(s) |-> IF i \in upper THEN UpperChar(s[i]) ELSE s[i]]

\* "Necesito calma" in every mix of upper and lower case.
CaseMixes ==
    LET s == toLowerCase(InputText.Necesito_calma)
    IN  {CaseMix(s, upper) : upper \in SUBSET (1..Len(s))}

Moods ==
    {InputText.Necesito_calma, InputText.Estoy_agotado, InputText.Estoy_AGOTADO,
     InputText.Me_siento_bloqueada, InputText.Calma,
     InputText.agotado_en_calma, InputText.calma_creativa, InputText.Busco_inspiracion,
     InputText.muy_tranquilo,
     InputText.con_energia, InputText.Creatividad_TRANQUILA, InputText.Estoy_INSPIRADA,
     <<>>}

Names == {Undefined, Str(<<>>), Str(InputText.Ana), Str(InputText.Estoy_agotado)}

Experiences == {<<>>, InputText.El_Retiro, InputText.un_paseo, Template.tired_2}

Latitudes == {-90000, -3, 0, 40415}

Longitudes == {-3684, -3, 0, 179998}

TimeWindows == {0, 5, 20, 45, 120}

Preferences ==
    {Undefined, Str(PreferenceName.mas_verde), Str(PreferenceName.mas_ciudad),
     Str(PreferenceName.mixto)}

\* A value that is not a number, a value that is not a string.
NotANumber == {Undefined, Str(InputText.number12)}

NotAString == {Undefined, Num(12)}

WideFindBreakSpots ==
    {ToolsCall(Num(1), Str(ToolName.find_break_spots), Args(a)) :
        a \in {[lat |-> Num(40415), lng |-> Num(-3684)],
               [lat |-> Num(40415), lng |-> Num(-3684), mood |-> Str(InputText.Necesito_calma)],
               [lat |-> Num(40415), lng |-> Num(-3684), maxDistanceMeters |-> Num(500)],
               [lat |-> Num(0), lng |-> Num(179998), maxDistanceMeters |-> Num(0),
                timeWindowMinutes |-> Num(5), mood |-> Str(InputText.con_energia)]}}
    \cup {ToolsCall(Num(1), Str(ToolName.find_break_spots),
                    Args([lat |-> lat, lng |-> Num(-3684)])) : lat \in NotANumber}
    \cup {ToolsCall(Num(1), Str(ToolName.find_break_spots),
                    Args([lat |-> Num(40415), lng |-> lng])) : lng \in NotANumber}
    \cup {ToolsCall(Num(1), Str(ToolName.find_break_spots),
                    Args([lat |-> Num(40415), lng |-> Num(-3684),
                          maxDistanceMeters |-> Str(InputText.number12)])),
          ToolsCall(Num(1), Str(ToolName.find_break_spots),
                    Args([lat |-> Num(40415), lng |-> Num(-3684), mood |-> Num(12)]))}

WideGenerateWalkRoute ==
    {ToolsCall(Num(1), Str(ToolName.generate_walk_route),
               Args([lat |-> Num(lat), lng |-> Num(lng), timeWindowMinutes |-> Num(t),
                     preference |-> p])) :
        lat \in Latitudes, lng \in Longitudes, t \in TimeWindows, p \in Preferences}
    \cup {ToolsCall(Num(1), Str(ToolName.generate_walk_route),
                    Args([lat |-> lat, lng |-> lng, timeWindowMinutes |-> t,
                          preference |-> p])) :
            lat \in NotANumber \cup {Num(40415)}, lng \in NotANumber \cup {Num(-3684)},
            t \in NotANumber \cup {Num(20)}, p \in {Undefined, Str(InputText.verde), Num(12)}}

WideSuggestSoundtrack ==
    {ToolsCall(Num(1), Str(ToolName.suggest_soundtrack), Args([mood |-> Str(m)])) :
        m \in CaseMixes \cup Moods}
    \cup {ToolsCall(Num(1), Str(ToolName.suggest_soundtrack), Args([mood |-> m])) :
            m \in NotAString}

WideGenerateCoachMessage ==
    {ToolsCall(Num(1), Str(ToolName.generate_coach_message),
               Args([name |-> n, mood |-> Str(m), experience_info |-> Str(e)])) :
        n \in Names, m \in Moods, e \in Experiences}
    \cup {ToolsCall(Num(1), Str(ToolName.generate_coach_message),
                    Args([name |-> n, mood |-> m, experience_info |-> e])) :
            n \in {Undefined, Str(InputText.Ana), Num(12)},
            m \in NotAString \cup {Str(InputText.Estoy_agotado)},
            e \in NotAString \cup {Str(InputText.El_Retiro)}}

\* The inputs of SpecCall: every request of SmallRequests, and each tool over
\* a grid of argument values.
WideRequests ==
    SmallRequests \cup WideFindBreakSpots \cup WideGenerateWalkRoute
    \cup WideSuggestSoundtrack \cup WideGenerateCoachMessage

\* The tags object of an element, with the three keys the code reads.
Tags(name, street, housenumber) ==
    Obj([k \in {"name", "addr:street", "addr:housenumber"} |->
            CASE k = "name" -> name
              [] k = "addr:street" -> street
              [] k = "addr:housenumber" -> housenumber])

Element(id, tags, center, lat, lon) ==
    [id |-> id, tags |-> tags, center |-> center, lat |-> lat, lon |-> lon]

Center(lat, lon) == Obj([lat |-> Num(lat), lon |-> Num(lon)])

\* Kinds of Overpass element: a named node with an address, a way without a
\* name tag, an element without tags, an empty name beside a street on an
\* element with both a center and its own coordinate, a way whose center lies
\* on the equator, an area whose center lies on the prime meridian.
ElementKinds ==
    <<Element(Num(11),
              Tags(Str(InputText.Jardin), Str(InputText.Calle_Mayor), Str(InputText.number12)),
              Undefined, Num(40411), Num(-3689)),
      Element(Num(12), Tags(Undefined, Undefined, Undefined), Center(40415, -3684),
              Undefined, Undefined),
      Element(Num(13), Undefined, Undefined, Num(-33868), Num(151209)),
      Element(Num(14), Tags(Str(<<>>), Str(InputText.Calle_Mayor), Undefined),
              Center(1000, 2000), Num(5), Num(6)),
      Element(Num(15), Tags(Str(InputText.verde), Undefined, Undefined), Center(0, 9000),
              Undefined, Undefined),
      Element(Num(16), Tags(Str(InputText.El_Retiro), Undefined, Undefined), Center(51477, 0),
              Num(51470), Num(-1))>>

\* An element without an id.
NoIdElement ==
    Element(Undefined, Tags(Undefined, Undefined, Undefined), Undefined, Num(40411), Num(-3689))

\* n elements, kinds taken in rotation from the k-th, ids distinct.
Elements(n, k) ==
    [i \in 1..n |->
        LET e == ElementKinds[((k + i - 2) % Len(ElementKinds)) + 1]
        IN [e EXCEPT !.id = Num(100 * i + e.id.val)]]

Data(elements) == [elements |-> elements]

\* response.data of the model's Overpass answers in Spec: a short array, an
\* array longer than the cap, an array holding an id-less element.
SmallData ==
    {Data(Arr(Elements(2, 1))), Data(Arr(Elements(MaxRaw, 3))),
     Data(Arr(<<ElementKinds[1], NoIdElement>>))}

\* Elements(n, k) with the j-th element stripped of its id.
ElementsWithout(n, k, j) == [Elements(n, k) EXCEPT ![j] = [@ EXCEPT !.id = Undefined]]

\* response.data in SpecCall: no elements key, arrays of every length up to
\* MaxRaw starting at every kind, and a full array with one id-less element at
\* every position (within the cap and beyond it).
WideData ==
    {Data(Undefined)}
    \cup {Data(Arr(Elements(n, k))) : n \in 0..MaxRaw, k \in 1..Len(ElementKinds)}
    \cup {Data(Arr(ElementsWithout(MaxRaw, 1, j))) : j \in 1..MaxRaw}

\* ----------------------------------------------------------- specification

Init ==
    /\ lastWidgetData = EmptyObject
    /\ requests = <<>>
    /\ queries = [h \in 1..MaxRequests |-> [park |-> Idle, cafe |-> Idle]]
    /\ responses = [h \in 1..MaxRequests |-> <<>>]
    /\ outbound = <<>>
    /\ incoming = MaxRequests
    /\ transport = Undefined /\ connections = <<>> /\ messages = <<>>
    /\ places = MOCK_PLACES /\ route = Null

QueryTypes == {"park", "cafe"}

Next ==
    \/ Receive(SmallRequests)
    \/ \E h \in 1..Len(requests), type \in QueryTypes, data \in SmallData :
          QueryReturns(h, type, data)
    \/ \E h \in 1..Len(requests), type \in QueryTypes : QueryFails(h, type)

\* The server under up to MaxRequests requests, handled concurrently.
Spec == Init /\ [][Next]_vars

InitCall ==
    /\ lastWidgetData = EmptyObject
    /\ requests = <<>>
    /\ queries = [h \in 1..MaxRequests |-> [park |-> Idle, cafe |-> Idle]]
    /\ responses = [h \in 1..MaxRequests |-> <<>>]
    /\ outbound = <<>>
    /\ incoming = 1
    /\ transport = Undefined /\ connections = <<>> /\ messages = <<>>
    /\ places = MOCK_PLACES /\ route = Null

NextCall ==
    \/ Receive(WideRequests)
    \/ \E h \in 1..Len(requests), type \in QueryTypes, data \in WideData :
          QueryReturns(h, type, data)
    \/ \E h \in 1..Len(requests), type \in QueryTypes : QueryFails(h, type)

\* One request on a fresh server, over the wide input sets.
SpecCall == InitCall /\ [][NextCall]_vars

InitPair ==
    /\ lastWidgetData = EmptyObject
    /\ requests = <<>>
    /\ queries = [h \in 1..MaxRequests |-> [park |-> Idle, cafe |-> Idle]]
    /\ responses = [h \in 1..MaxRequests |-> <<>>]
    /\ outbound = <<>>
    /\ incoming = 2
    /\ transport = Undefined /\ connections = <<>> /\ messages = <<>>
    /\ places = MOCK_PLACES /\ route = Null

NextPair ==
    \/ \E r \in Arrivals(WideFindBreakSpots) : CallFindBreakSpots(r)
    \/ \E h \in 1..Len(requests), type \in QueryTypes, data \in SmallData :
          QueryReturns(h, type, data)
    \/ \E h \in 1..Len(requests), type \in QueryTypes : QueryFails(h, type)

\* Two find_break_spots calls on a fresh server, handled concurrently.
SpecPair == InitPair /\ [][NextPair]_vars

\* The outbound call of the given type made for the request at h returns or
\* fails.
Completion(h, type) ==
    \/ \E data \in SmallData : QueryReturns(h, type, data)
    \/ QueryFails(h, type)

\* Every outbound call eventually returns or fails.
CallsComplete ==
    \A h \in 1..MaxRequests : \A type \in QueryTypes : WF_vars(Completion(h, type))

\* Two requests of any kind, handled concurrently, every outbound call
\* eventually completing.
SpecLive == InitPair /\ [][Next]_vars /\ CallsComplete

\* ------------------------------------------------- the SSE variant on its own

InitSse ==
    /\ transport = Undefined
    /\ connections = <<>>
    /\ messages = <<>>
    /\ lastWidgetData = EmptyObject
    /\ requests = <<>>
    /\ queries = [h \in 1..MaxRequests |-> [park |-> Idle, cafe |-> Idle]]
    /\ responses = [h \in 1..MaxRequests |-> <<>>]
    /\ outbound = <<>>
    /\ incoming = 0
    /\ places = MOCK_PLACES /\ route = Null

NextSse ==
    \/ \E connected \in BOOLEAN : GetSse(connected)
    \/ \E c \in 1..Len(connections) : KeepAlive(c)
    \/ \E c \in 1..Len(connections) : Close(c)
    \/ \E c \in 1..Len(connections) : End(c)
    \/ \E thrown \in BOOLEAN : PostMessages(thrown)

\* The SSE variant under up to MaxConnections connections and MaxMessages
\* posted messages, in any order.
SpecSse == InitSse /\ [][NextSse]_vars

\* ---------------------------------------------------- the widget on its own

\* The routes of the answers of the poll.
PolledRoutes ==
    { Arr(<<[lat |-> 40416, lng |-> -3703], [lat |-> 40417, lng |-> -3702]>>),
      Arr(<<[lat |-> 40420, lng |-> -3700]>>) }

\* The places of the answers: ids that parse, that parse to 0 and that do
\* not parse, both categories, and an entry without a location.
PolledPlaces ==
    { [place_id |-> <<"1", "2">>, name |-> "El Retiro", type |-> "park",
       location |-> Obj([lat |-> 40415, lng |-> -3684]),
       address |-> "Address not available", rating |-> 45,
       estimated_walk_time |-> "5-10 min"],
      [place_id |-> <<"0">>, name |-> "Cafe Comercial", type |-> "quiet_cafe",
       location |-> Obj([lat |-> 40428, lng |-> -3702]),
       address |-> "Glorieta de Bilbao, 7", rating |-> 45,
       estimated_walk_time |-> "5-10 min"],
      [place_id |-> <<"n", "7">>, name |-> "Unknown Park", type |-> "park",
       location |-> Obj([lat |-> 40411, lng |-> -3689]),
       address |-> "Address not available", rating |-> 45,
       estimated_walk_time |-> "5-10 min"],
      [place_id |-> <<"1", "2">>, name |-> "Unknown Cafe", type |-> "quiet_cafe",
       location |-> Undefined,
       address |-> "Address not available", rating |-> 45,
       estimated_walk_time |-> "5-10 min"] }

\* What response.json() gives: nothing at all when the fetch fails, a JSON
\* null, an object with places only, an object with no places or an empty
\* list and any route, an object with one place and a route.
PollAnswers ==
    {Undefined, Null}
    \cup { Obj([places |-> Arr(l), route |-> Undefined]) :
              l \in UNION {[1..n -> PolledPlaces] : n \in 0..MaxPolled} }
    \cup { Obj([places |-> p, route |-> r]) :
              p \in {Undefined, Arr(<<>>)},
              r \in {Undefined, Arr(<<>>)} \cup PolledRoutes }
    \cup { Obj([places |-> Arr(l), route |-> r]) :
              l \in [1..1 -> PolledPlaces], r \in PolledRoutes }

\* window.__INITIAL_DATA__: absent, a legacy array, an object with places,
\* an object with an empty places list, an object with a route.
InitialData ==
    { Undefined,
      Arr(<<MOCK_PLACES[2]>>),
      Obj([places |-> Arr(<<MOCK_PLACES[3], MOCK_PLACES[1]>>), route |-> Undefined]),
      Obj([places |-> Arr(<<>>), route |-> Undefined]),
      Obj([places |-> Undefined,
           route |-> Arr(<<[lat |-> 41385, lng |-> 2173], [lat |-> 41386, lng |-> 2174]>>)]) }

InitWidget ==
    /\ \E data \in InitialData :
          /\ places = InitialState(data).places
          /\ route = InitialState(data).route
    /\ transport = Undefined /\ connections = <<>> /\ messages = <<>>
    /\ lastWidgetData = EmptyObject
    /\ requests = <<>>
    /\ queries = [h \in 1..MaxRequests |-> [park |-> Idle, cafe |-> Idle]]
    /\ responses = [h \in 1..MaxRequests |-> <<>>]
    /\ outbound = <<>>
    /\ incoming = 0

NextWidget ==
    \E answer \in PollAnswers, random \in [1..MaxPolled -> Fractions] :
        fetchData(answer, random)

\* The widget from its mount on, under any sequence of answers to its polls.
SpecWidget == InitWidget /\ [][NextWidget]_vars
\* ------------------------------------------------------------------ claims

Handles == 1..Len(requests)

Answered(h) == responses[h] # <<>>

Response(h) == responses[h][1]

\* The request at h is a tools/call of the named tool.
Calls(h, toolName) == IsToolsCall(requests[h], toolName)

\* The request at h got a result (not an error).
GotResult(h) == Answered(h) /\ IsResult(Response(h))

\* The place list a find_break_spots result carries.
PlacesOf(h) == Response(h).body.result.structuredContent.places

IsParkPlace(p) == p.type = "park"

IsCafePlace(p) == p.type = "quiet_cafe"

\* What queryOverpass handed to the handler at h for a query type.
RawOf(h, type) == queries[h][type].elements

\* The entries of a place list are the first five of the raw records, in
\* order (matched by id).
FirstFiveOf(entries, raw) ==
    /\ Len(entries) = (IF Len(raw) < 5 THEN Len(raw) ELSE 5)
    /\ \A i \in 1..Len(entries) : entries[i].place_id = NumberToString(raw[i].id.val)

\* C1: a find_break_spots result lists at most 5 park entries and at most 5
\* quiet_cafe entries, parks first: the first 5 records of each query, in the
\* query's order, however many records the queries returned.
C1_AtMostFivePerCategory ==
    \A h \in Handles :
        (Calls(h, ToolName.find_break_spots) /\ GotResult(h)) =>
            LET parkEntries == SelectSeq(PlacesOf(h), IsParkPlace)
                cafeEntries == SelectSeq(PlacesOf(h), IsCafePlace)
            IN /\ Len(parkEntries) <= 5
               /\ Len(cafeEntries) <= 5
               /\ PlacesOf(h) = parkEntries \o cafeEntries
               /\ FirstFiveOf(parkEntries, RawOf(h, "park"))
               /\ FirstFiveOf(cafeEntries, RawOf(h, "cafe"))

\* C1's case: both queries returned more than five records and the call gave
\* its result.
C1_Witness ==
    \E h \in Handles :
        /\ Calls(h, ToolName.find_break_spots) /\ GotResult(h)
        /\ Len(RawOf(h, "park")) > 5 /\ Len(RawOf(h, "cafe")) > 5
        /\ Len(PlacesOf(h)) = 10

\* A find_break_spots call at h has resumed after its await with the query of
\* the given type failed.
ResumedAfterFailure(h, type) ==
    /\ Calls(h, ToolName.find_break_spots)
    /\ Answered(h)
    /\ queries[h][type].state = "settled"
    /\ queries[h][type].failed

OtherType(type) == IF type = "park" THEN "cafe" ELSE "park"

EntriesOfType(listed, type) ==
    IF type = "park" THEN SelectSeq(listed, IsParkPlace) ELSE SelectSeq(listed, IsCafePlace)

\* Some record among the first five of raw has no id.
KeptRecordWithoutId(raw) == \E i \in 1..Len(raw) : i <= 5 /\ raw[i].id = Undefined

\* The failed category has no entry and the other category's entries are
\* there.
DegradedResult(h, type) ==
    /\ GotResult(h)
    /\ Response(h).status = 200
    /\ EntriesOfType(PlacesOf(h), type) = <<>>
    /\ FirstFiveOf(EntriesOfType(PlacesOf(h), OtherType(type)), RawOf(h, OtherType(type)))

\* C2 as stated: when a query of find_break_spots fails, its category has no
\* entry, the other category's entries are returned, and the response is a
\* result, never an error.
C2_FailureNeverAnError ==
    \A h \in Handles : \A type \in {"park", "cafe"} :
        ResumedAfterFailure(h, type) => DegradedResult(h, type)

\* C2, amended: a failed query counts as an empty answer.  The response is
\* the internal error exactly when a kept record of the other category has no
\* id; otherwise it is a result with no entry of the failed category and the
\* other category's entries.
C2_FailureIsAnEmptyAnswer ==
    \A h \in Handles : \A type \in {"park", "cafe"} :
        ResumedAfterFailure(h, type) =>
            /\ Len(responses[h]) = 1
            /\ IF KeptRecordWithoutId(RawOf(h, OtherType(type)))
               THEN /\ IsError(Response(h))
                    /\ Response(h).body.error.code = -32603
                    /\ Response(h).body.error.message = s_toString_of_undefined
               ELSE DegradedResult(h, type)

\* C2's case: the park query failed, the cafe query returned records, and
\* the result lists the cafes alone.
C2_Witness ==
    \E h \in Handles :
        /\ ResumedAfterFailure(h, "park")
        /\ ~queries[h].cafe.failed
        /\ GotResult(h)
        /\ Len(PlacesOf(h)) >= 2
        /\ \A i \in 1..Len(PlacesOf(h)) : PlacesOf(h)[i].type = "quiet_cafe"

\* The request at h is a tools/call naming none of the four tools.
CallsUnknownTool(h) ==
    /\ requests[h].method = Str(MethodName.tools_call)
    /\ ParamsOf(requests[h]).name \notin
          {Str(ToolName.find_break_spots), Str(ToolName.generate_walk_route),
           Str(ToolName.suggest_soundtrack),
           Str(ToolName.generate_coach_message)}

\* The request at h has been answered unless it is a find_break_spots call
\* still awaiting its queries.
Served(h) ==
    \/ Len(responses[h]) = 1
    \/ /\ responses[h] = <<>>
       /\ Calls(h, ToolName.find_break_spots)
       /\ \E type \in {"park", "cafe"} : queries[h][type].state = "pending"

\* C3: a tools/call naming an unknown operation gets exactly one response, an
\* error carrying the request's id and no result, and every request that
\* arrives after it is served as usual.
C3_UnknownToolIsAnError ==
    \A h \in Handles :
        CallsUnknownTool(h) =>
            /\ Len(responses[h]) = 1
            /\ IsError(Response(h))
            /\ ~IsResult(Response(h))
            /\ Response(h).body.id = requests[h].id
            /\ \A later \in Handles : later > h => Served(later)

\* C3's case: an unknown operation was called and a later request got its
\* result.
C3_Witness ==
    \E h \in Handles, later \in Handles :
        /\ CallsUnknownTool(h)
        /\ later > h
        /\ GotResult(later)

\* The value of an argument of the request at h (undefined when the arguments
\* are no object).
ArgOf(h, key) ==
    IF ArgsOf(requests[h]).kind = "object" THEN ArgsOf(requests[h]).val[key] ELSE Undefined

IsNumber(v) == v.kind = "number"

IsString(v) == v.kind = "string"

\* The arguments of the call at h do not match the tool's shape, in one of the
\* ways the claim lists.
MalformedCall(h) ==
    \/ /\ Calls(h, ToolName.find_break_spots)
       /\ \/ ~IsNumber(ArgOf(h, "lat"))
          \/ ~IsNumber(ArgOf(h, "lng"))
          \/ ArgOf(h, "maxDistanceMeters") # Undefined
             /\ ~IsNumber(ArgOf(h, "maxDistanceMeters"))
          \/ ArgOf(h, "timeWindowMinutes") # Undefined
             /\ ~IsNumber(ArgOf(h, "timeWindowMinutes"))
          \/ ArgOf(h, "mood") # Undefined /\ ~IsString(ArgOf(h, "mood"))
    \/ /\ Calls(h, ToolName.generate_walk_route)
       /\ \/ ~IsNumber(ArgOf(h, "lat"))
          \/ ~IsNumber(ArgOf(h, "lng"))
          \/ ~IsNumber(ArgOf(h, "timeWindowMinutes"))
          \/ ArgOf(h, "preference") \notin
                {Undefined, Str(PreferenceName.mas_verde), Str(PreferenceName.mas_ciudad),
                 Str(PreferenceName.mixto)}
    \/ /\ Calls(h, ToolName.suggest_soundtrack)
       /\ ~IsString(ArgOf(h, "mood"))
    \/ /\ Calls(h, ToolName.generate_coach_message)
       /\ \/ ~IsString(ArgOf(h, "mood"))
          \/ ~IsString(ArgOf(h, "experience_info"))
          \/ ArgOf(h, "name") # Undefined /\ ~IsString(ArgOf(h, "name"))

\* C4: a tools/call with malformed arguments gets an error response and the
\* tool's body does not run: no Overpass query is issued for it, no result is
\* produced, the slot is not written.
C4_MalformedArgumentsRejected ==
    \A h \in Handles :
        MalformedCall(h) =>
            /\ Len(responses[h]) = 1
            /\ IsError(Response(h))
            /\ ~IsResult(Response(h))
            /\ \A i \in 1..Len(outbound) : outbound[i].handle # h
            /\ queries[h] = [park |-> Idle, cafe |-> Idle]
            /\ lastWidgetData = EmptyObject

\* C4's case: a generate_walk_route call with a preference outside the
\* enumeration was rejected.
C4_Witness ==
    \E h \in Handles :
        /\ Calls(h, ToolName.generate_walk_route)
        /\ ArgOf(h, "preference") = Str(InputText.verde)
        /\ IsNumber(ArgOf(h, "lat")) /\ IsNumber(ArgOf(h, "lng"))
        /\ IsNumber(ArgOf(h, "timeWindowMinutes"))
        /\ Answered(h) /\ IsError(Response(h))

\* The i-th place of the result at h and the raw record it was made from.
RawOfPlace(h, i) ==
    LET parks == RawOf(h, "park")
        kept == IF Len(parks) < 5 THEN Len(parks) ELSE 5
    IN IF i <= kept THEN parks[i] ELSE RawOf(h, "cafe")[i - kept]

DefaultName(place) == IF place.type = "park" THEN s_Parque_sin_nombre ELSE s_Cafe

HasNameTag(p) == p.tags # Undefined /\ p.tags.val["name"] # Undefined

\* C5 as stated: a record without a name tag gets its category's default
\* name; a record with a name tag keeps that name.
C5_NameTagKept ==
    \A h \in Handles :
        (Calls(h, ToolName.find_break_spots) /\ GotResult(h)) =>
            \A i \in 1..Len(PlacesOf(h)) :
                LET p == RawOfPlace(h, i) IN
                IF HasNameTag(p) THEN PlacesOf(h)[i].name = p.tags.val["name"]
                ELSE PlacesOf(h)[i].name = Str(DefaultName(PlacesOf(h)[i]))

\* C5, amended: a record without a name tag, or whose name tag is the empty
\* string, gets its category's default name; a record with a non-empty name
\* tag keeps that name.
C5_NonEmptyNameTagKept ==
    \A h \in Handles :
        (Calls(h, ToolName.find_break_spots) /\ GotResult(h)) =>
            \A i \in 1..Len(PlacesOf(h)) :
                LET p == RawOfPlace(h, i) IN
                IF HasNameTag(p) /\ p.tags.val["name"] # Str(<<>>)
                THEN PlacesOf(h)[i].name = p.tags.val["name"]
                ELSE PlacesOf(h)[i].name = Str(DefaultName(PlacesOf(h)[i]))

\* C5's case: one result holds a cafe made from a record without tags, named
\* "Café", a park made from a record without a name tag, named "Parque sin
\* nombre", and a place that kept its name tag.
C5_Witness ==
    \E h \in Handles :
        /\ Calls(h, ToolName.find_break_spots) /\ GotResult(h)
        /\ \E i \in 1..Len(PlacesOf(h)) :
              /\ RawOfPlace(h, i).tags = Undefined
              /\ PlacesOf(h)[i].name = Str(s_Cafe)
        /\ \E i \in 1..Len(PlacesOf(h)) :
              /\ RawOfPlace(h, i).tags # Undefined
              /\ ~HasNameTag(RawOfPlace(h, i))
              /\ PlacesOf(h)[i].name = Str(s_Parque_sin_nombre)
        /\ \E i \in 1..Len(PlacesOf(h)) : PlacesOf(h)[i].name = Str(InputText.Jardin)

\* C6: a place made from a record with a center is located at (center.lat,
\* center.lon), whatever the center's coordinates; a place made from a record
\* without a center is located at the record's own (lat, lon).
C6_LocationIsCenterOrOwn ==
    \A h \in Handles :
        (Calls(h, ToolName.find_break_spots) /\ GotResult(h)) =>
            \A i \in 1..Len(PlacesOf(h)) :
                LET p == RawOfPlace(h, i) IN
                IF p.center # Undefined
                THEN PlacesOf(h)[i].location =
                        [lat |-> p.center.val.lat, lng |-> p.center.val.lon]
                ELSE PlacesOf(h)[i].location = [lat |-> p.lat, lng |-> p.lon]

\* suggest_soundtrack's result text at h.
SuggestionsOf(h) == Response(h).body.result.content[1].text.json

\* C7: suggest_soundtrack with "Necesito calma" in any mix of upper and lower
\* case returns exactly two records, "Nature Sounds" then "Piano Chill".
C7_NecesitoCalmaAnyCase ==
    \A h \in Handles :
        (/\ Calls(h, ToolName.suggest_soundtrack)
         /\ IsString(ArgOf(h, "mood"))
         /\ ArgOf(h, "mood").val \in CaseMixes
         /\ Answered(h)) =>
            /\ IsResult(Response(h))
            /\ Len(SuggestionsOf(h)) = 2
            /\ SuggestionsOf(h)[1] =
                  [title |-> "Nature Sounds", description |-> "Sonidos de bosque y lluvia",
                   type |-> "soundscape", query |-> "nature sounds"]
            /\ SuggestionsOf(h)[2] =
                  [title |-> "Piano Chill", description |-> "Piano suave para desconectar",
                   type |-> "playlist", query |-> "piano chill"]

\* C7's case: the mood was written all in upper case.
C7_Witness ==
    \E h \in Handles :
        /\ Calls(h, ToolName.suggest_soundtrack)
        /\ ArgOf(h, "mood") = Str(CaseMix(InputText.Necesito_calma, 1..Len(InputText.Necesito_calma)))
        /\ GotResult(h)
        /\ SuggestionsOf(h)[1].title = "Nature Sounds"

\* generate_coach_message's result text at h.
MessageOf(h) == Response(h).body.result.content[1].text

\* The request at h is a generate_coach_message call with mood "Estoy
\* agotado" that got its result.
TiredCall(h) ==
    /\ Calls(h, ToolName.generate_coach_message)
    /\ ArgOf(h, "mood") = Str(InputText.Estoy_agotado)
    /\ IsString(ArgOf(h, "experience_info"))
    /\ GotResult(h)

\* C8 as stated: with mood "Estoy agotado" the message is "<name>, respira
\* profundo. Tómate estos minutos para ti. <experience_info> te ayudará a
\* resetear." with the given name and experience_info unchanged, whatever
\* strings they are.
C8_TiredTemplateVerbatim ==
    \A h \in Handles :
        (TiredCall(h) /\ IsString(ArgOf(h, "name"))) =>
            MessageOf(h) =
                ArgOf(h, "name").val \o Template.tired_1 \o ArgOf(h, "experience_info").val
                \o Template.tired_2

\* C8, amended: the same for every non-empty name; when the name is absent or
\* the empty string, "ahí" stands in its place.
C8_TiredTemplateNonEmptyName ==
    \A h \in Handles :
        TiredCall(h) =>
            MessageOf(h) =
                (IF IsString(ArgOf(h, "name")) /\ ArgOf(h, "name").val # <<>>
                 THEN ArgOf(h, "name").val
                 ELSE s_ahi)
                \o Template.tired_1 \o ArgOf(h, "experience_info").val \o Template.tired_2

\* C8's case: a name and an experience text were given and appear in the
\* message, and in another run no name was given.
C8_Witness ==
    \E h \in Handles :
        /\ TiredCall(h)
        /\ ArgOf(h, "name") = Str(InputText.Ana)
        /\ ArgOf(h, "experience_info") = Str(InputText.El_Retiro)
        /\ SubSeq(MessageOf(h), 1, 3) = InputText.Ana

\* generate_walk_route's result text at h.
RouteTextOf(h) == Response(h).body.result.content[1].text.json

\* C9: generate_walk_route returns the five points (lat,lng), (lat+0.003,lng),
\* (lat+0.003,lng+0.003), (lat,lng+0.003), (lat,lng), which depend on the
\* origin alone, and echoes the time budget as "<timeWindowMinutes> min".
C9_FixedLoopAroundOrigin ==
    \A h \in Handles :
        (Calls(h, ToolName.generate_walk_route) /\ GotResult(h)) =>
            LET lat == ArgOf(h, "lat").val
                lng == ArgOf(h, "lng").val
                points == RouteTextOf(h).route_points
            IN /\ points = <<[lat |-> lat, lng |-> lng],
                             [lat |-> lat + 3, lng |-> lng],
                             [lat |-> lat + 3, lng |-> lng + 3],
                             [lat |-> lat, lng |-> lng + 3],
                             [lat |-> lat, lng |-> lng]>>
               /\ points[1] = points[5]
               /\ RouteTextOf(h).estimated_duration =
                     NumberToString(ArgOf(h, "timeWindowMinutes").val) \o s__min
               /\ ArgOf(h, "timeWindowMinutes") = Num(120) =>
                     RouteTextOf(h).estimated_duration =
                        <<"1", "2", "0", " ", "m", "i", "n">>

\* C9's case: a route was generated with a time budget of 120 minutes.
C9_Witness ==
    \E h \in Handles :
        /\ Calls(h, ToolName.generate_walk_route)
        /\ GotResult(h)
        /\ ArgOf(h, "timeWindowMinutes") = Num(120)
        /\ Len(RouteTextOf(h).route_points) = 5

\* The request at h gets its response in this step.
AnsweredNow(h) == Len(responses'[h]) > Len(responses[h])

\* After this step the slot holds a payload of the response the request at h
\* has just got.
SlotFromResponse(h) ==
    LET resp == responses'[h][Len(responses'[h])] IN
    /\ IsResult(resp)
    /\ \/ /\ IsToolsCall(requests'[h], ToolName.find_break_spots)
          /\ lastWidgetData' = [places |-> resp.body.result.structuredContent.places]
       \/ /\ IsToolsCall(requests'[h], ToolName.generate_walk_route)
          /\ lastWidgetData' = [route |-> resp.body.result.content[1].text.json.route_points]

\* C10 as stated: whenever a request has been handled, the slot holds a value
\* produced by that request.
C10_EveryRequestOverwrites ==
    [][\A h \in 1..Len(requests') : AnsweredNow(h) => SlotFromResponse(h)]_vars

\* C10, amended: the slot is overwritten by every find_break_spots and
\* generate_walk_route call that produces its result, with that result's
\* places or route; a request handled in any other way leaves the slot as the
\* earlier request left it.
C10_OnlyWidgetToolsOverwrite ==
    [][\A h \in 1..Len(requests') :
          AnsweredNow(h) =>
              LET resp == responses'[h][Len(responses'[h])] IN
              IF /\ IsResult(resp)
                 /\ requests'[h].method = Str(MethodName.tools_call)
                 /\ ParamsOf(requests'[h]).name
                       \in {Str(ToolName.find_break_spots), Str(ToolName.generate_walk_route)}
              THEN SlotFromResponse(h)
              ELSE lastWidgetData' = lastWidgetData]_vars

\* C10's case: a route was stored, then a find_break_spots call replaced it
\* by its places.
C10_Witness ==
    /\ Len(requests) = 2
    /\ Calls(1, ToolName.generate_walk_route) /\ GotResult(1)
    /\ Calls(2, ToolName.find_break_spots) /\ GotResult(2)
    /\ lastWidgetData = [places |-> PlacesOf(2)]
    /\ PlacesOf(2) # <<>>

\* The request at h is a find_break_spots or generate_walk_route call and the
\* response it gets in this step is a result.
WidgetResultNow(h) ==
    /\ AnsweredNow(h)
    /\ IsResult(responses'[h][Len(responses'[h])])
    /\ \/ IsToolsCall(requests'[h], ToolName.find_break_spots)
       \/ IsToolsCall(requests'[h], ToolName.generate_walk_route)

\* The result at h is made of the request's own data alone: the places are
\* the first five records of its own two queries, the route starts at its own
\* origin.
OwnPayload(h) ==
    /\ Calls(h, ToolName.find_break_spots) =>
          /\ FirstFiveOf(SelectSeq(PlacesOf(h), IsParkPlace), RawOf(h, "park"))
          /\ FirstFiveOf(SelectSeq(PlacesOf(h), IsCafePlace), RawOf(h, "cafe"))
          /\ Len(PlacesOf(h)) = Len(SelectSeq(PlacesOf(h), IsParkPlace))
                                + Len(SelectSeq(PlacesOf(h), IsCafePlace))
    /\ Calls(h, ToolName.generate_walk_route) =>
          RouteTextOf(h).route_points[1] =
             [lat |-> ArgOf(h, "lat").val, lng |-> ArgOf(h, "lng").val]

\* A step writes the slot exactly when it answers a widget call with a
\* result, and then with that call's payload.
LastWriteWins ==
    /\ \A h \in 1..Len(requests') : WidgetResultNow(h) => SlotFromResponse(h)
    /\ (\A h \in 1..Len(requests') : ~WidgetResultNow(h)) => lastWidgetData' = lastWidgetData
    /\ \A h \in 1..Len(requests) : Answered(h) => responses'[h] = responses[h]

\* C11: with requests handled concurrently, in every interleaving of the
\* query completions the slot holds the payload of the widget call that wrote
\* last, whatever the arrival order, a response once sent is not touched by
\* another request, and each result carries its own request's data only.
C11_LastWriterWinsResponsesIsolated ==
    /\ [](\A h \in Handles :
            (GotResult(h) /\ (Calls(h, ToolName.find_break_spots)
                              \/ Calls(h, ToolName.generate_walk_route)))
               => OwnPayload(h))
    /\ [][LastWriteWins]_vars

\* C11's case: two find_break_spots calls overlapped, the one that arrived
\* first completed last, and the slot holds its places, not those of the call
\* that arrived last.
C11_Witness ==
    /\ Len(requests) = 2
    /\ Calls(1, ToolName.find_break_spots) /\ GotResult(1)
    /\ Calls(2, ToolName.find_break_spots) /\ GotResult(2)
    /\ PlacesOf(1) # PlacesOf(2)
    /\ PlacesOf(2) # <<>>
    /\ lastWidgetData = [places |-> PlacesOf(1)]

\* C12: every response of the endpoint, result or error, carries the id of
\* the request it answers (none for a request that has none), also when
\* another request arrived while the handler was awaiting.
C12_ResponseCarriesRequestId ==
    \A h \in Handles :
        \A i \in 1..Len(responses[h]) :
            /\ "id" \in DOMAIN responses[h][i].body
            /\ responses[h][i].body.id = requests[h].id

\* C12's case: a find_break_spots call was answered after a request with
\* another id had arrived and been answered, and an error response carried
\* its request's id too.
C12_Witness ==
    /\ Len(requests) = 2
    /\ Calls(1, ToolName.find_break_spots) /\ Answered(1)
    /\ Answered(2) /\ IsError(Response(2))
    /\ requests[1].id # requests[2].id
    /\ Response(1).body.id = Num(1)
    /\ Response(2).body.id = Num(2)

\* The titles of a list of suggestion records, in order.
Titles(records) == [i \in 1..Len(records) |-> records[i].title]

\* The lower-cased mood of the call at h contains one of the keywords.
MoodHas(h, keywords) ==
    \E k \in keywords : includes(toLowerCase(ArgOf(h, "mood").val), k)

\* C13: suggest_soundtrack applies its rules in order on the lower-cased
\* mood: "calma" or "tranquil" gives the calm set even beside "creativ" or
\* "inspir"; otherwise "creativ" or "inspir" gives the creative set; any other
\* mood gives the default set; every set has exactly two records.
C13_SoundtrackRulesInOrder ==
    \A h \in Handles :
        (Calls(h, ToolName.suggest_soundtrack) /\ GotResult(h)) =>
            LET calm == MoodHas(h, {Keyword.calma, Keyword.tranquil})
                creative == MoodHas(h, {Keyword.creativ, Keyword.inspir})
                titles == Titles(SuggestionsOf(h))
            IN /\ Len(SuggestionsOf(h)) = 2
               /\ calm => titles = <<"Nature Sounds", "Piano Chill">>
               /\ (~calm /\ creative) => titles = <<"Lofi Beats", "Classical Focus">>
               /\ (~calm /\ ~creative) => titles = <<"Acoustic Relax", "Ambient Noise">>
               /\ ArgOf(h, "mood") = Str(InputText.Creatividad_TRANQUILA) => calm /\ creative
               /\ ArgOf(h, "mood") = Str(InputText.Estoy_INSPIRADA) => ~calm /\ creative
               /\ ArgOf(h, "mood") = Str(InputText.con_energia) => ~calm /\ ~creative

\* C13's case: a mood with a calm and a creative keyword, in mixed case, got
\* the calm set.
C13_Witness ==
    \E h \in Handles :
        /\ Calls(h, ToolName.suggest_soundtrack) /\ GotResult(h)
        /\ ArgOf(h, "mood") = Str(InputText.Creatividad_TRANQUILA)
        /\ Titles(SuggestionsOf(h)) = <<"Nature Sounds", "Piano Chill">>

\* The three templates around the name and the experience text.
TiredMessage(name, info) == name \o Template.tired_1 \o info \o Template.tired_2

CalmMessage(name, info) == Template.calm_1 \o name \o Template.calm_2 \o info \o Template.calm_3

EnergeticMessage(name, info) ==
    Template.energetic_1 \o name \o Template.energetic_2 \o info \o Template.energetic_3

\* The name the message addresses: the one given, "ahí" when none or an empty
\* one is given.
AddressedName(h) ==
    IF ArgOf(h, "name") \in {Undefined, Str(<<>>)} THEN s_ahi ELSE ArgOf(h, "name").val

\* The mood of the call at h, as given, contains the keyword.
MoodContains(h, k) == includes(ArgOf(h, "mood").val, k)

\* C14: generate_coach_message takes the first template whose rule matches
\* the mood as given: "agotado" or "bloqueada" gives the tired template even
\* beside "calma"; otherwise "calma" gives the calm template; any other mood
\* gives the energetic template; the message is that template around the name
\* and the experience text, which it therefore contains.
C14_CoachTemplatesInOrder ==
    \A h \in Handles :
        (Calls(h, ToolName.generate_coach_message) /\ GotResult(h)) =>
            LET tired == MoodContains(h, Keyword.agotado) \/ MoodContains(h, Keyword.bloqueada)
                calm == MoodContains(h, Keyword.calma)
                name == AddressedName(h)
                info == ArgOf(h, "experience_info").val
            IN /\ tired => MessageOf(h) = TiredMessage(name, info)
               /\ (~tired /\ calm) => MessageOf(h) = CalmMessage(name, info)
               /\ (~tired /\ ~calm) => MessageOf(h) = EnergeticMessage(name, info)
               /\ includes(MessageOf(h), name)
               /\ includes(MessageOf(h), info)
               /\ ArgOf(h, "mood") = Str(InputText.agotado_en_calma) => tired /\ calm
               /\ ArgOf(h, "mood") = Str(InputText.Necesito_calma) => ~tired /\ calm
               /\ ArgOf(h, "mood") = Str(InputText.con_energia) => ~tired /\ ~calm

\* C14's case: a mood with "agotado" and "calma" got the tired template with
\* the given name and experience text.
C14_Witness ==
    \E h \in Handles :
        /\ Calls(h, ToolName.generate_coach_message) /\ GotResult(h)
        /\ ArgOf(h, "mood") = Str(InputText.agotado_en_calma)
        /\ ArgOf(h, "name") = Str(InputText.Ana)
        /\ ArgOf(h, "experience_info") = Str(InputText.El_Retiro)
        /\ MessageOf(h) = TiredMessage(InputText.Ana, InputText.El_Retiro)

\* The outbound queries issued for the request at h, in the order issued.
IssuedFor(h) == SelectSeq(outbound, LAMBDA o : o.handle = h)

StateOf(h, type) == queries[h][type].state

\* The query of the given type is the one the handler at h has been waiting
\* for last: it settles in this step, the other one had settled before.
SettlesLast(h, type) ==
    /\ StateOf(h, type) = "pending"
    /\ StateOf(h, OtherType(type)) = "settled"
    /\ queries'[h][type].state = "settled"

\* After this step the response at h lists the park entries, then the cafe
\* entries, each the first five of what its query handed over.
MergedParksFirst(h) ==
    LET listed == responses'[h][1].body.result.structuredContent.places
        parkEntries == SelectSeq(listed, IsParkPlace)
        cafeEntries == SelectSeq(listed, IsCafePlace)
    IN /\ listed = parkEntries \o cafeEntries
       /\ FirstFiveOf(parkEntries, queries'[h].park.elements)
       /\ FirstFiveOf(cafeEntries, queries'[h].cafe.elements)

\* Both queries are issued together, park then cafe, and nothing is answered
\* while one of them is pending.
IssuedTogetherJoined ==
    \A h \in Handles :
        Calls(h, ToolName.find_break_spots) =>
            /\ Len(IssuedFor(h)) \in {0, 2}
            /\ Len(IssuedFor(h)) = 2 =>
                  /\ IssuedFor(h)[1].query.type = "park"
                  /\ IssuedFor(h)[2].query.type = "cafe"
                  /\ StateOf(h, "park") # "idle" /\ StateOf(h, "cafe") # "idle"
            /\ Len(IssuedFor(h)) = 0 =>
                  StateOf(h, "park") = "idle" /\ StateOf(h, "cafe") = "idle"
            /\ (StateOf(h, "park") = "pending" \/ StateOf(h, "cafe") = "pending") =>
                  ~Answered(h)
            /\ (StateOf(h, "park") = "settled" /\ StateOf(h, "cafe") = "settled") =>
                  Answered(h)

\* C15: find_break_spots issues the park query and the cafe query together,
\* before awaiting either, answers only once both have completed or failed,
\* and lists the park entries before the cafe entries whichever of the two
\* completed last.
C15_BothIssuedThenJoined ==
    /\ []IssuedTogetherJoined
    /\ [][\A h \in Handles : \A type \in {"park", "cafe"} :
             SettlesLast(h, type) =>
                 /\ AnsweredNow(h)
                 /\ IsResult(responses'[h][1]) => MergedParksFirst(h)]_vars

\* C15's case: the cafe query has completed with records while the park query
\* is still pending, and the call has not been answered.
C15_Witness ==
    \E h \in Handles :
        /\ Calls(h, ToolName.find_break_spots)
        /\ StateOf(h, "cafe") = "settled" /\ Len(RawOf(h, "cafe")) > 0
        /\ StateOf(h, "park") = "pending"
        /\ ~Answered(h)

\* The calls at g and h passed validation and differ at most in mood.
SameButMood(g, h) ==
    /\ Calls(g, ToolName.find_break_spots) /\ Calls(h, ToolName.find_break_spots)
    /\ Issues(FindBreakSpotsSchema, ArgsOf(requests[g])) = {}
    /\ Issues(FindBreakSpotsSchema, ArgsOf(requests[h])) = {}
    /\ \A key \in ArgKeys \ {"mood"} : ArgOf(g, key) = ArgOf(h, key)

\* The queries issued for the request at h, without the handle.
QueriesOf(h) == [i \in 1..Len(IssuedFor(h)) |-> IssuedFor(h)[i].query]

\* The two queries of g got the same answers as those of h.
SameAnswers(g, h) ==
    /\ Answered(g) /\ Answered(h)
    /\ \A type \in {"park", "cafe"} : queries[g][type] = queries[h][type]

\* C16: two find_break_spots calls that differ only in mood, or in whether a
\* mood is given, issue the same two queries and, given the same answers,
\* return the same response: the same place list and the same count text.
C16_MoodDoesNotInfluence ==
    \A g \in Handles : \A h \in Handles :
        SameButMood(g, h) =>
            /\ QueriesOf(g) = QueriesOf(h)
            /\ Len(QueriesOf(g)) = 2
            /\ SameAnswers(g, h) =>
                  /\ Response(g).status = Response(h).status
                  /\ IsResult(Response(g)) = IsResult(Response(h))
                  /\ IsResult(Response(g)) =>
                        Response(g).body.result = Response(h).body.result

\* C16's case: a call without a mood and a call with one got the same
\* answers, with records, and returned the same places.
C16_Witness ==
    /\ Len(requests) = 2
    /\ SameButMood(1, 2)
    /\ ArgOf(1, "mood") = Undefined
    /\ ArgOf(2, "mood") = Str(InputText.Necesito_calma)
    /\ SameAnswers(1, 2)
    /\ GotResult(1) /\ GotResult(2)
    /\ Len(PlacesOf(1)) > 5
    /\ PlacesOf(1) = PlacesOf(2)

\* The request at h is a find_break_spots call whose arguments passed
\* validation.
ValidFindBreakSpots(h) ==
    /\ Calls(h, ToolName.find_break_spots)
    /\ Issues(FindBreakSpotsSchema, ArgsOf(requests[h])) = {}

\* C17: nothing is retried.  A find_break_spots call (one that passed
\* validation and so reached its queries) has issued exactly two outbound
\* queries, one for parks and one for cafes, and still exactly two after one
\* or both of them failed; every other request has issued none.
C17_ExactlyTwoQueriesNoRetry ==
    \A h \in Handles :
        IF ValidFindBreakSpots(h)
        THEN /\ Len(QueriesOf(h)) = 2
             /\ QueriesOf(h)[1].type = "park"
             /\ QueriesOf(h)[2].type = "cafe"
        ELSE QueriesOf(h) = <<>>

\* C17's case: both queries of a call failed, the call was answered, and a
\* soundtrack call was answered too.
C17_Witness ==
    /\ Len(requests) = 2
    /\ \E h \in Handles :
          /\ ResumedAfterFailure(h, "park") /\ ResumedAfterFailure(h, "cafe")
          /\ Len(QueriesOf(h)) = 2
    /\ \E h \in Handles :
          /\ Calls(h, ToolName.suggest_soundtrack) /\ GotResult(h)
          /\ QueriesOf(h) = <<>>
    /\ Len(outbound) = 2

\* The response is the catch block's: status 500, code -32603.
IsInternalError(resp) ==
    /\ IsError(resp)
    /\ resp.status = 500
    /\ resp.body.error.code = -32603

\* A find_break_spots call at h has resumed with an id-less record among
\* those it keeps.
ResumedOnRecordWithoutId(h) ==
    /\ ValidFindBreakSpots(h)
    /\ StateOf(h, "park") = "settled" /\ StateOf(h, "cafe") = "settled"
    /\ KeptRecordWithoutId(RawOf(h, "park")) \/ KeptRecordWithoutId(RawOf(h, "cafe"))

\* A failure raised while handling is answered by one internal error that
\* carries the failure's message: the TypeError of the id-less record, the
\* ZodError of a validation failure.
FailureAnsweredWithMessage ==
    \A h \in Handles :
        /\ ResumedOnRecordWithoutId(h) =>
              /\ Len(responses[h]) = 1
              /\ IsInternalError(Response(h))
              /\ Response(h).body.error.message = s_toString_of_undefined
        /\ (Calls(h, ToolName.find_break_spots) /\ ~ValidFindBreakSpots(h)) =>
              /\ Len(responses[h]) = 1
              /\ IsInternalError(Response(h))
              /\ Response(h).body.error.message =
                    ZodMessage(Issues(FindBreakSpotsSchema, ArgsOf(requests[h])))
        /\ Served(h)

\* The step that answers a request with an internal error leaves everything
\* a later or concurrent request depends on as it was: the slot, and the
\* queries and responses of every other request.
FailureLeavesNoTrace ==
    \A h \in 1..Len(requests') :
        (AnsweredNow(h) /\ IsInternalError(responses'[h][Len(responses'[h])])) =>
            /\ lastWidgetData' = lastWidgetData
            /\ outbound' = outbound
            /\ \A g \in 1..Len(requests) \ {h} :
                  responses'[g] = responses[g] /\ queries'[g] = queries[g]

C19_EveryRequestAnsweredOnce ==
    /\ [](\A h \in Handles :
             /\ Len(responses[h]) <= 1
             /\ Answered(h) => (IsResult(Response(h)) # IsError(Response(h))))
    /\ \A h \in 1..MaxRequests : (h <= Len(requests)) ~> (Len(responses[h]) = 1)

\* C19's case: a find_break_spots call waited for its two queries, one of
\* which failed, while another request was answered; both have one response.
C19_Witness ==
    /\ Len(requests) = 2
    /\ \A h \in Handles : Len(responses[h]) = 1
    /\ \E h \in Handles :
          /\ ResumedAfterFailure(h, "park")
          /\ ~queries[h].cafe.failed

\* The count text of the find_break_spots result at h.
CountTextOf(h) == Response(h).body.result.content[1].text

\* "Encontré N lugares cerca de ti."
CountText(n) == s_Encontre_ \o NumberToString(n) \o s__lugares

AtMostFive(n) == IF n < 5 THEN n ELSE 5

\* C20: a find_break_spots result carries, beside the place list, the text
\* "Encontré N lugares cerca de ti." with N the length of that list, which is
\* min(5, park records) + min(5, cafe records), and 0 when both queries
\* failed.
C20_CountTextMatchesPlaces ==
    \A h \in Handles :
        (Calls(h, ToolName.find_break_spots) /\ GotResult(h)) =>
            LET n == Len(PlacesOf(h)) IN
            /\ CountTextOf(h) = CountText(n)
            /\ n = AtMostFive(Len(RawOf(h, "park"))) + AtMostFive(Len(RawOf(h, "cafe")))
            /\ Len(Response(h).body.result.content) = 1
            /\ (queries[h].park.failed /\ queries[h].cafe.failed) =>
                  /\ n = 0
                  /\ CountTextOf(h) =
                        <<"E", "n", "c", "o", "n", "t", "r", "é", " ", "0", " ", "l", "u",
                          "g", "a", "r", "e", "s", " ", "c", "e", "r", "c", "a", " ", "d",
                          "e", " ", "t", "i", ".">>
            /\ n = 10 =>
                  CountTextOf(h) =
                     <<"E", "n", "c", "o", "n", "t", "r", "é", " ", "1", "0", " ", "l", "u",
                       "g", "a", "r", "e", "s", " ", "c", "e", "r", "c", "a", " ", "d",
                       "e", " ", "t", "i", ".">>

\* C20's case: one query returned more than five records, the other two, and
\* the text counts seven places.
C20_Witness ==
    \E h \in Handles :
        /\ Calls(h, ToolName.find_break_spots) /\ GotResult(h)
        /\ Len(RawOf(h, "park")) > 5
        /\ Len(RawOf(h, "cafe")) = 2
        /\ CountTextOf(h) = CountText(7)

\* The radius the call at h asks for: the one given, 900 when none is.
RadiusAsked(h) ==
    IF ArgOf(h, "maxDistanceMeters") = Undefined THEN 900
    ELSE ArgOf(h, "maxDistanceMeters").val

\* C21: both queries of a find_break_spots call are bounded by the given
\* radius around the given coordinate, and by 900 when no radius is given.
C21_RadiusGivenOrDefault ==
    \A h \in Handles :
        ValidFindBreakSpots(h) =>
            \A i \in 1..Len(QueriesOf(h)) :
                /\ Len(QueriesOf(h)) = 2
                /\ QueriesOf(h)[i].radius = RadiusAsked(h)
                /\ QueriesOf(h)[i].lat = ArgOf(h, "lat").val
                /\ QueriesOf(h)[i].lng = ArgOf(h, "lng").val

\* C21's case: one call gave no radius and its queries carry 900.
C21_Witness ==
    \E h \in Handles :
        /\ ValidFindBreakSpots(h)
        /\ ArgOf(h, "maxDistanceMeters") = Undefined
        /\ Len(QueriesOf(h)) = 2
        /\ QueriesOf(h)[1].radius = 900 /\ QueriesOf(h)[2].radius = 900


\* The request at h is a find_break_spots or generate_walk_route call whose
\* arguments passed validation.
ValidWidgetCall(h) ==
    \/ /\ IsToolsCall(requests'[h], ToolName.find_break_spots)
       /\ Issues(FindBreakSpotsSchema, ArgsOf(requests'[h])) = {}
    \/ /\ IsToolsCall(requests'[h], ToolName.generate_walk_route)
       /\ Issues(GenerateWalkRouteSchema, ArgsOf(requests'[h])) = {}

\* C23: a step changes the slot only by completing a find_break_spots or
\* generate_walk_route call that passed validation; the step that answers any
\* other request, or a call that failed validation, leaves the slot exactly as
\* it was.
C23_SlotChangesOnlyByWidgetCalls ==
    [][/\ lastWidgetData' # lastWidgetData =>
             \E h \in 1..Len(requests') :
                 /\ ValidWidgetCall(h)
                 /\ AnsweredNow(h)
                 /\ IsResult(responses'[h][1])
       /\ \A h \in 1..Len(requests') :
             (AnsweredNow(h) /\ ~ValidWidgetCall(h)) => lastWidgetData' = lastWidgetData]_vars

\* C23's case: a route was stored, a generate_coach_message call was answered
\* after it, and the route is still in the slot.
C23_Witness ==
    /\ Len(requests) = 2
    /\ Calls(1, ToolName.generate_walk_route) /\ GotResult(1)
    /\ Calls(2, ToolName.generate_coach_message) /\ GotResult(2)
    /\ lastWidgetData = [route |-> RouteTextOf(1).route_points]

\* C24: the slot is empty, or holds a places list and nothing else, or holds
\* a route and nothing else; each write replaces the whole value, so places
\* and a route are never in it together.
C24_PlacesOrRouteNeverBoth ==
    /\ DOMAIN lastWidgetData \in {{}, {"places"}, {"route"}}
    /\ lastWidgetData = EmptyObject
       \/ \E h \in Handles :
             /\ GotResult(h)
             /\ \/ /\ Calls(h, ToolName.find_break_spots)
                   /\ lastWidgetData = [places |-> PlacesOf(h)]
                \/ /\ Calls(h, ToolName.generate_walk_route)
                   /\ lastWidgetData = [route |-> RouteTextOf(h).route_points]

\* C24's case: a find_break_spots call stored its places, a
\* generate_walk_route call wrote after it, and the slot holds the route
\* alone.
C24_Witness ==
    /\ Len(requests) = 2
    /\ Calls(1, ToolName.find_break_spots) /\ GotResult(1) /\ PlacesOf(1) # <<>>
    /\ Calls(2, ToolName.generate_walk_route) /\ GotResult(2)
    /\ DOMAIN lastWidgetData = {"route"}

\* The request at h reads the widget resource.
ReadsWidget(h) ==
    /\ requests'[h].method = Str(MethodName.resources_read)
    /\ ParamsOf(requests'[h]).uri = Str(u_widget_map)

\* The html text of the resources/read response at h.
WidgetTextOf(h) == Response(h).body.result.contents[1].text

\* C25: the widget page a resources/read of ui://widget/map returns carries
\* as window.__INITIAL_DATA__ the value the slot has when the read is
\* handled (the fallback page sent when index.html cannot be read carries
\* none), and the read leaves the slot alone; so a read handled while a
\* find_break_spots call awaits its queries carries the older value.
C25_ReadInjectsSlotAtReadTime ==
    [][\A h \in 1..Len(requests') :
          (AnsweredNow(h) /\ ReadsWidget(h)) =>
              LET text == responses'[h][1].body.result.contents[1].text IN
              /\ IsResult(responses'[h][1])
              /\ lastWidgetData' = lastWidgetData
              /\ \/ text = [page |-> "index.html", initialData |-> [json |-> lastWidgetData]]
                 \/ text = [page |-> "<h1>Error loading widget</h1>"]]_vars

\* C25's case: the read arrived while a find_break_spots call was awaiting
\* its queries and carried the empty object; the call has since stored its
\* places.
C25_Witness ==
    /\ Len(requests) = 2
    /\ Calls(1, ToolName.find_break_spots) /\ GotResult(1) /\ PlacesOf(1) # <<>>
    /\ requests[2].method = Str(MethodName.resources_read)
    /\ GotResult(2)
    /\ WidgetTextOf(2) = [page |-> "index.html", initialData |-> [json |-> EmptyObject]]
    /\ lastWidgetData = [places |-> PlacesOf(1)]

\* C26: generate_coach_message matches the mood as given, so a keyword
\* written with an upper-case letter ("Estoy AGOTADO", "Calma") matches
\* nothing and the energetic template is used; suggest_soundtrack lower-cases
\* first, so "Calma" selects the calm set.
C26_CoachCaseSensitiveSoundtrackNot ==
    \A h \in Handles :
        /\ (/\ Calls(h, ToolName.generate_coach_message)
            /\ GotResult(h)
            /\ ArgOf(h, "mood") \in {Str(InputText.Estoy_AGOTADO), Str(InputText.Calma)}) =>
              MessageOf(h) = EnergeticMessage(AddressedName(h), ArgOf(h, "experience_info").val)
        /\ (/\ Calls(h, ToolName.suggest_soundtrack)
            /\ GotResult(h)
            /\ ArgOf(h, "mood") = Str(InputText.Calma)) =>
              Titles(SuggestionsOf(h)) = <<"Nature Sounds", "Piano Chill">>

\* C26's case: generate_coach_message was called with mood "Estoy AGOTADO"
\* and answered with the energetic template.
C26_Witness ==
    \E h \in Handles :
        /\ Calls(h, ToolName.generate_coach_message) /\ GotResult(h)
        /\ ArgOf(h, "mood") = Str(InputText.Estoy_AGOTADO)
        /\ ArgOf(h, "name") = Str(InputText.Ana)
        /\ MessageOf(h) = EnergeticMessage(InputText.Ana, ArgOf(h, "experience_info").val)

\* The method of the request at h is none of the five the endpoint handles.
MethodUnsupported(r) == \A m \in Methods : r.method # Str(m)

\* The request reads a resource other than the widget.
ReadsOtherResource(r) ==
    /\ r.method = Str(MethodName.resources_read)
    /\ ParamsOf(r).uri # Str(u_widget_map)

\* The response is a protocol error (status 200) with the given code, for
\* the given request.
IsProtocolError(resp, r, code) ==
    /\ IsError(resp) /\ ~IsResult(resp)
    /\ resp.status = 200
    /\ resp.body.error.code = code
    /\ resp.body.id = r.id

\* C27: a request whose method is none of initialize, resources/list,
\* resources/read, tools/list, tools/call is answered by the error -32601
\* with the request's id, and the slot stays as it was; a resources/read of a
\* uri other than ui://widget/map is answered by the error -32602.
C27_UnsupportedMethodAndUnknownResource ==
    /\ [](\A h \in Handles :
             /\ MethodUnsupported(requests[h]) =>
                   /\ Len(responses[h]) = 1
                   /\ IsProtocolError(Response(h), requests[h], -32601)
                   /\ Response(h).body.error.message =
                         s_Method_ \o TemplateString(requests[h].method) \o s__not_supported
             /\ ReadsOtherResource(requests[h]) =>
                   /\ Len(responses[h]) = 1
                   /\ IsProtocolError(Response(h), requests[h], -32602)
                   /\ Response(h).body.error.message = s_Resource_not_found)
    /\ [][\A h \in 1..Len(requests') :
             (AnsweredNow(h)
              /\ (MethodUnsupported(requests'[h]) \/ ReadsOtherResource(requests'[h]))) =>
                 lastWidgetData' = lastWidgetData]_vars

\* C27's case: a route was stored, then a ping was answered by -32601, and
\* the route is still in the slot.
C27_Witness ==
    /\ Len(requests) = 2
    /\ Calls(1, ToolName.generate_walk_route) /\ GotResult(1)
    /\ requests[2].method = Str(MethodName.ping)
    /\ IsProtocolError(Response(2), requests[2], -32601)
    /\ lastWidgetData = [route |-> RouteTextOf(1).route_points]

\* ----------------------------------------------------------------- C28

\* The record of the POST /messages handled in this step.
Posted == messages'[Len(messages')]

\* A POST /messages is handled in this step.
PostHandled == Len(messages') > Len(messages)

\* C28: in the SSE variant a POST /messages received before any GET /sse
\* connection has been opened is answered 400 and is not handed to a
\* transport.
C28_NoConnectionYetIs400 ==
    [][PostHandled /\ connections = <<>>
          => Posted.status = 400 /\ Posted.transport = Undefined]_vars

\* A message was rejected with 400 and still no connection has been opened.
C28_Witness ==
    /\ connections = <<>>
    /\ \E i \in 1..Len(messages) :
          messages[i].status = 400 /\ messages[i].transport = Undefined

\* ----------------------------------------------------------------- C22

\* C22: in the SSE variant there is one global transport and the last
\* connection wins: once a GET /sse has been made the global is the
\* transport of the most recently opened connection, and a POST /messages
\* is handed to that transport, whether or not an earlier connection is
\* still open and whether or not the most recent one has closed.
C22_LastConnectionWins ==
    /\ [](connections # <<>> => transport = SSEServerTransport(Len(connections)))
    /\ [][PostHandled /\ connections # <<>>
             => Posted.transport = SSEServerTransport(Len(connections))]_vars

\* A message was handed to the transport of the second connection after that
\* connection had closed, while the first connection is still open.
C22_Witness ==
    /\ Len(connections) = 2
    /\ ~connections[1].closed
    /\ \E i \in 1..Len(messages) :
          messages[i].transport = SSEServerTransport(2) /\ messages[i].closed

\* ----------------------------------------------------------------- C30

\* C30: in the SSE variant the keep-alive timer of a connection writes a
\* comment only while that connection's response has not ended and its
\* close event has not fired, one comment a tick; and a step that closes or
\* ends a connection, or clears its timer, leaves the timers and the
\* comments of the other connections as they were.
C30_KeepAliveOnlyWhileLive ==
    [][\A c \in 1..Len(connections) :
          /\ connections'[c].comments # connections[c].comments
                => /\ ~connections[c].writableEnded
                   /\ ~connections[c].closed
                   /\ connections'[c].comments = connections[c].comments + 1
          /\ connections'[c] # connections[c]
                => \A d \in 1..Len(connections) \ {c} :
                      connections'[d] = connections[d]]_vars

\* The first connection wrote a comment and then closed, which cleared its
\* timer; the timer of the second connection is still set and has written.
C30_Witness ==
    /\ Len(connections) = 2
    /\ connections[1].closed
    /\ connections[1].comments = 1
    /\ connections[1].keepAlive = "cleared"
    /\ ~connections[2].closed
    /\ connections[2].keepAlive = "set"
    /\ connections[2].comments = 1

\* ----------------------------------------------------------------- C29

\* The answers of a poll that carry no places: a failed fetch, a JSON null,
\* an object without places or with an empty list.
AnswersWithoutPlaces ==
    {answer \in PollAnswers :
        \/ answer.kind # "object"
        \/ ~Truthy(answer.val.places)
        \/ answer.val.places.val = <<>>}

\* The list is what the widget makes of a non-empty places list of a poll.
IsPolledList(list) ==
    /\ list # <<>>
    /\ \A i \in 1..Len(list) :
          \E p \in PolledPlaces, f \in Fractions :
              /\ p.location # Undefined
              /\ list[i] = transformedPlaces(<<p>>, <<f>>)[1]

\* C29: the polling widget replaces the displayed places only by the
\* non-empty places list of a poll, and the displayed route only by the
\* non-empty route of a poll; a poll that fails or carries no places or an
\* empty list leaves the displayed places as they were; displayed places
\* are never cleared.
C29_PollReplacesOnlyByNonEmpty ==
    [][/\ places' # places => IsPolledList(places')
       /\ route' # route => route' \in PolledRoutes /\ route'.val # <<>>
       /\ \A answer \in AnswersWithoutPlaces :
             fetchData(answer, [i \in 1..MaxPolled |-> 3]) => places' = places
       /\ places # <<>> => places' # <<>>]_vars

\* The route injected at load is still displayed, beside places that came
\* from a later poll: places and a route of different requests.
C29_Witness ==
    /\ route # Null
    /\ route \notin PolledRoutes
    /\ IsPolledList(places)

====
